---- MODULE Spec2Model ----
(***************************************************************************)
(* A model of datapyrse, a client-side data-access layer for Dataverse.    *)
(*                                                                         *)
(*  - the relationship resolver of RelateRequest and its caller            *)
(*    ServiceClient._parse_relate (specification SpecRelate);              *)
(*  - QueryExpression and its cached FetchXML (specification SpecQuery);   *)
(*  - the attribute decoder Entity._parse_attributes (SpecDecode) and the  *)
(*    encoder parse_entity_to_web_api_body (SpecEncode);                   *)
(*  - ConditionExpression and ColumnSet with the elements compiled from    *)
(*    them (SpecCondition, SpecColumns);                                   *)
(*  - EntityReference, EntityCollection and EntityReferenceCollection      *)
(*    (SpecReference, SpecCollection, SpecReferences);                     *)
(*  - get_associate_request (SpecAssociate) and the headers of a           *)
(*    DataverseRequest (SpecHeaders).                                      *)
(*                                                                         *)
(* Python's None is the string "None" where a name is expected and the     *)
(* record [kind |-> "None"] where an object is expected.                   *)
(***************************************************************************)
EXTENDS FiniteSets, Integers, Sequences, TLC

VARIABLES
    org,                          \* the organisation's metadata on the server
    metadata,                     \* ServiceClient.metadata, the client's snapshot
    fetch_relationship_metadata,  \* ServiceClient.fetch_relationship_metadata
    pc,                           \* position inside ServiceClient._parse_relate
    relate_request,               \* the RelateRequest built by _parse_relate
    inferred,                     \* what parse_relationship_name returned
    validated,                    \* what validate_relationship_name returned
    outcome,                      \* how the last _parse_relate call ended
    refetched,                    \* the last _parse_relate call re-fetched metadata
    query,                        \* a QueryExpression object, or NoQuery
    payload,                      \* the wire object handed to Entity(...)
    entity,                       \* the Entity built from it, or a failure
    encode_metadata,              \* the OrgMetadata handed to the encoder
    api_body,                     \* what parse_entity_to_web_api_body gave
    condition_expression,         \* a ConditionExpression, or a failure
    condition_element,            \* the element _filter_to_fetchxml built for it
    column_set_built,             \* a ColumnSet, or a failure
    link_element,                 \* the link-entity element compiled with it
    entity_reference,             \* an EntityReference, or NoObject
    entity_collection,            \* an EntityCollection, or NoObject
    reference_collection,         \* an EntityReferenceCollection, or NoObject
    associate_request,            \* what get_associate_request gave
    DEFAULT_HEADERS,              \* the module-level dict of utils/_dataverse.py
    request_headers               \* the headers of the last DataverseRequest

relateVars == <<org, metadata, fetch_relationship_metadata, pc, relate_request,
                inferred, validated, outcome, refetched>>
queryVars == <<query>>
decodeVars == <<payload, entity>>
encodeVars == <<encode_metadata, api_body>>
conditionVars == <<condition_expression, condition_element>>
columnVars == <<column_set_built, link_element>>
objectVars == <<entity_reference, entity_collection, reference_collection>>
messageVars == <<associate_request, DEFAULT_HEADERS, request_headers>>
vars == <<org, metadata, fetch_relationship_metadata, pc, relate_request,
          inferred, validated, outcome, refetched, query, payload, entity,
          encode_metadata, api_body, condition_expression, condition_element,
          column_set_built, link_element, entity_reference, entity_collection,
          reference_collection, associate_request, DEFAULT_HEADERS,
          request_headers>>

None == "None"
NoObject == [kind |-> "None"]

(***************************************************************************)
(* Bounds of the model.                                                    *)
(***************************************************************************)
\* relationship descriptors in the whole organisation
MaxRels == 2
\* OrderExpressions in a QueryExpression
MaxOrders == 1
\* keys in a wire object
MaxKeys == 3
\* elements of the longest value list handed to ConditionExpression
MaxValues == 502
\* columns in the longest list handed to ColumnSet
MaxColumns == 3
\* elements of an EntityCollection
MaxEntities == 2
\* references in an EntityReferenceCollection
MaxReferences == 3
\* related records handed to get_associate_request
MaxRelated == 3

(***************************************************************************)
(* Organisation metadata (_entity_metadata.py).                            *)
(***************************************************************************)
EntityNames == {"account", "contact"}
SchemaNames == {"account_contacts", "Account_Contacts", "contact_customer"}

\* str.lower() on the schema names of the model
Lower(s) ==
    CASE s = "account_contacts" -> "account_contacts"
      [] s = "Account_Contacts" -> "account_contacts"
      [] s = "contact_customer" -> "contact_customer"
      [] OTHER -> s

\* the two ways a descriptor can name the pair of entities of the model
Orientations == {<<"account", "contact">>, <<"contact", "account">>}

OneToManyRelationshipMetadata ==
    {[kind |-> "OneToMany", referenced_entity |-> o[1],
      referencing_entity |-> o[2], schema_name |-> s] :
        o \in Orientations, s \in SchemaNames}

ManyToOneRelationshipMetadata ==
    {[kind |-> "ManyToOne", referenced_entity |-> o[1],
      referencing_entity |-> o[2], schema_name |-> s] :
        o \in Orientations, s \in SchemaNames}

ManyToManyRelationshipMetadata ==
    {[kind |-> "ManyToMany", entity_1_logical_name |-> o[1],
      entity_2_logical_name |-> o[2], schema_name |-> s] :
        o \in Orientations, s \in SchemaNames}

RelationshipMetadata ==
    OneToManyRelationshipMetadata \cup ManyToOneRelationshipMetadata
        \cup ManyToManyRelationshipMetadata

\* an EntityMetadata whose relationship lists hold, in order, the descriptors
\* that the placement sequence gives to the entity
EntityMetadata(name, placement) ==
    LET Mine(kind) ==
            SelectSeq(placement, LAMBDA p : p[1] = name /\ p[2].kind = kind)
        Rels(kind) == [i \in 1..Len(Mine(kind)) |-> Mine(kind)[i][2]]
    IN  [logical_name |-> name,
         one_to_many_relationships |-> Rels("OneToMany"),
         many_to_one_relationships |-> Rels("ManyToOne"),
         many_to_many_relationships |-> Rels("ManyToMany")]

SeqsUpTo(S, n) == UNION {[1..k -> S] : k \in 0..n}

\* the EntityDefinitions the server can hold: both entities, in either order,
\* with at most MaxRels relationship descriptors over all their lists
EntityDefinitions ==
    {[i \in 1..2 |-> EntityMetadata(order[i], placement)] :
        order \in {<<"account", "contact">>, <<"contact", "account">>},
        placement \in SeqsUpTo(EntityNames \X RelationshipMetadata, MaxRels)}

\* EntityMetadata.from_json without the relationship keys: the lists stay None,
\* which every reader of them tests by truthiness only, like an empty list
WithoutRelationships(e) ==
    [e EXCEPT !.one_to_many_relationships = <<>>,
              !.many_to_one_relationships = <<>>,
              !.many_to_many_relationships = <<>>]

\* _get_metadata without its assignment to contains_relationships, which
\* then keeps the default of OrgMetadata
GetMetadata_FlagNotSet(get_relationships) ==
    [entities |-> IF get_relationships
                  THEN org
                  ELSE [i \in DOMAIN org |-> WithoutRelationships(org[i])],
     contains_relationships |-> FALSE]

\* ServiceClient._get_metadata, when the request succeeds
GetMetadata(get_relationships) ==
    [entities |-> IF get_relationships
                  THEN org
                  ELSE [i \in DOMAIN org |-> WithoutRelationships(org[i])],
     contains_relationships |-> get_relationships]

(***************************************************************************)
(* RelateRequest (messages/_relate.py).  primary_record and                *)
(* related_records are the entity logical names of the primary record and  *)
(* of the related records, which EntityReferenceCollection keeps equal.    *)
(***************************************************************************)
Raised == [status |-> "raise", rel |-> NoObject]
NotFound == [status |-> "none", rel |-> NoObject]
Found(r) == [status |-> "ok", rel |-> r]
NotRun == [status |-> "notrun", rel |-> NoObject]

\* next(..., None): the index of the first element whose logical_name is one
\* of names, or 0
FirstIndex(s, names) ==
    IF \E i \in DOMAIN s : s[i].logical_name \in names
    THEN CHOOSE i \in DOMAIN s :
            /\ s[i].logical_name \in names
            /\ \A j \in 1..(i - 1) : s[j].logical_name \notin names
    ELSE 0

\* the entity_metadata that validate_relationship_name searches (index, or 0)
ValidateEntityIndex(req) ==
    FirstIndex(req.org_metadata.entities,
               {req.primary_record} \cup {req.related_records})

\* the three list comprehensions of validate_relationship_name
ValidateOneToMany(req, em) ==
    SelectSeq(em.one_to_many_relationships,
              LAMBDA r : /\ r.referenced_entity = req.primary_record
                         /\ r.referencing_entity = req.related_records
                         /\ Lower(r.schema_name) = Lower(req.relationship_name))

ValidateManyToOne(req, em) ==
    SelectSeq(em.many_to_one_relationships,
              LAMBDA r : /\ r.referenced_entity = req.primary_record
                         /\ r.referencing_entity = req.related_records
                         /\ Lower(r.schema_name) = Lower(req.relationship_name))

ValidateManyToMany(req, em) ==
    SelectSeq(em.many_to_many_relationships,
              LAMBDA r : /\ r.entity_1_logical_name = req.primary_record
                         /\ r.entity_2_logical_name = req.related_records
                         /\ Lower(r.schema_name) = Lower(req.relationship_name))

validate_relationship_name(req) ==
    IF req.relationship_name = None THEN Raised
    ELSE IF \/ req.org_metadata.entities = <<>>
            \/ ~req.org_metadata.contains_relationships THEN Raised
    ELSE IF ValidateEntityIndex(req) = 0 THEN Raised
    ELSE LET em == req.org_metadata.entities[ValidateEntityIndex(req)]
             one_to_many_relationships == ValidateOneToMany(req, em)
             many_to_one_relationships == ValidateManyToOne(req, em)
             many_to_many_relationships == ValidateManyToMany(req, em)
         IN  IF Len(one_to_many_relationships) = 1
             THEN Found(one_to_many_relationships[1])
             ELSE IF Len(many_to_one_relationships) = 1
             THEN Found(many_to_one_relationships[1])
             ELSE IF Len(many_to_many_relationships) = 1
             THEN Found(many_to_many_relationships[1])
             ELSE NotFound

\* the entity_metadata that parse_relationship_name searches (index, or 0)
ParseEntityIndex(req) ==
    FirstIndex(req.org_metadata.entities, {req.primary_record})

\* the three candidate lists of parse_relationship_name
possible_one_to_many(req, em) ==
    SelectSeq(em.one_to_many_relationships,
              LAMBDA r : /\ r.referenced_entity = req.primary_record
                         /\ r.referencing_entity = req.related_records)

possible_many_to_one(req, em) ==
    SelectSeq(em.many_to_one_relationships,
              LAMBDA r : /\ r.referenced_entity = req.primary_record
                         /\ r.referencing_entity = req.related_records)

possible_many_to_many(req, em) ==
    SelectSeq(em.many_to_many_relationships,
              LAMBDA r : /\ r.entity_1_logical_name = req.primary_record
                         /\ r.entity_2_logical_name = req.related_records)

\* returns (schema name, relationship); (None, None) is NotFound
parse_relationship_name(req) ==
    IF req.org_metadata.entities = <<>> THEN Raised
    ELSE IF ParseEntityIndex(req) = 0 THEN NotFound
    ELSE LET em == req.org_metadata.entities[ParseEntityIndex(req)]
             o2m == possible_one_to_many(req, em)
             m2o == possible_many_to_one(req, em)
             m2m == possible_many_to_many(req, em)
         IN  IF Len(m2m) > 1 \/ Len(m2o) > 1 \/ Len(o2m) > 1 THEN NotFound
             ELSE IF o2m # <<>> /\ m2o = <<>> /\ m2m = <<>> THEN Found(o2m[1])
             ELSE IF m2o # <<>> /\ o2m = <<>> /\ m2m = <<>> THEN Found(m2o[1])
             ELSE IF m2m # <<>> /\ o2m = <<>> /\ m2o = <<>> THEN Found(m2m[1])
             ELSE NotFound

RelateRequest(primary, related, md, name) ==
    [primary_record |-> primary, related_records |-> related,
     org_metadata |-> md, relationship_name |-> name,
     relationship_type |-> NoObject]

NoRequest == RelateRequest(None, None, [entities |-> <<>>,
                                        contains_relationships |-> FALSE], None)

(***************************************************************************)
(* ServiceClient (_service_client.py): the metadata snapshot and           *)
(* _parse_relate, which associate and disassociate both call first.        *)
(***************************************************************************)
NoQuery == [kind |-> "None"]
NoPayload == [kind |-> "None"]
NoEntity == [kind |-> "None"]
NoBody == [kind |-> "notrun"]

\* the encoder has not been called
EncodeIdle == encode_metadata = NoObject /\ api_body = NoBody

\* no ConditionExpression has been constructed
ConditionIdle == condition_expression = NoObject /\ condition_element = NoObject

\* no ColumnSet, EntityReference or collection was constructed
ColumnIdle == column_set_built = NoObject /\ link_element = NoObject
ObjectsIdle ==
    /\ entity_reference = NoObject
    /\ entity_collection = NoObject
    /\ reference_collection = NoObject

\* DEFAULT_HEADERS as utils/_dataverse.py defines it: header name -> value
DefaultHeaders ==
    [name \in {"OData-MaxVersion", "OData-Version", "Accept", "Content-Type",
               "Prefer"} |->
        CASE name = "OData-MaxVersion" -> "4.0"
          [] name = "OData-Version" -> "4.0"
          [] name = "Accept" -> "application/json"
          [] name = "Content-Type" -> "application/json; charset=utf-8"
          [] name = "Prefer" -> "odata.include-annotations=*"]

\* the module is imported and no request was built
MessagesIdle ==
    /\ associate_request = NoObject
    /\ DEFAULT_HEADERS = DefaultHeaders
    /\ request_headers = NoObject

\* ServiceClient.__init__ and __post_init__, for either value of
\* pre_fetch_relationship_metadata
InitRelate ==
    /\ org \in EntityDefinitions
    /\ \E pre_fetch \in BOOLEAN :
          /\ fetch_relationship_metadata = pre_fetch
          /\ metadata = GetMetadata(pre_fetch)
    /\ pc = "idle"
    /\ relate_request = NoRequest
    /\ inferred = NotRun
    /\ validated = NotRun
    /\ outcome = "none"
    /\ refetched = FALSE
    /\ query = NoQuery
    /\ payload = NoPayload
    /\ entity = NoEntity
    /\ EncodeIdle
    /\ ConditionIdle
    /\ ColumnIdle
    /\ ObjectsIdle
    /\ MessagesIdle

\* refresh_metadata, when the request succeeds
RefreshMetadata ==
    /\ pc = "idle"
    /\ IF ~fetch_relationship_metadata
       THEN /\ metadata' = GetMetadata(TRUE)
            /\ fetch_relationship_metadata' = TRUE
       ELSE /\ metadata' = GetMetadata(FALSE)
            /\ UNCHANGED fetch_relationship_metadata
    /\ UNCHANGED <<org, pc, relate_request, inferred, validated, outcome,
                   refetched, query, payload, entity, encodeVars, conditionVars, columnVars, objectVars, messageVars>>

\* refresh_metadata, when the request raises: _get_metadata has already set
\* fetch_relationship_metadata on the relationship branch
RefreshMetadataFails ==
    /\ pc = "idle"
    /\ ~fetch_relationship_metadata
    /\ fetch_relationship_metadata' = TRUE
    /\ UNCHANGED <<org, metadata, pc, relate_request, inferred, validated,
                   outcome, refetched, query, payload, entity, encodeVars, conditionVars, columnVars, objectVars, messageVars>>

\* _parse_relate up to the test of metadata.contains_relationships, for a
\* target and related records that pass the argument checks
ParseRelateCall(target, related, relationship_name) ==
    /\ pc = "idle"
    /\ relate_request' =
          RelateRequest(target, related, NoRequest.org_metadata, relationship_name)
    /\ inferred' = NotRun
    /\ validated' = NotRun
    /\ outcome' = "running"
    /\ refetched' = FALSE
    /\ pc' = IF metadata.contains_relationships THEN "resolve" ELSE "fetch"
    /\ UNCHANGED <<org, metadata, fetch_relationship_metadata, query, payload,
                   entity, encodeVars, conditionVars, columnVars, objectVars, messageVars>>

\* _parse_relate: the re-fetch with relationships succeeds
ParseRelateFetch ==
    /\ pc = "fetch"
    /\ metadata' = GetMetadata(TRUE)
    /\ fetch_relationship_metadata' = TRUE
    /\ refetched' = TRUE
    /\ pc' = "resolve"
    /\ UNCHANGED <<org, relate_request, inferred, validated, outcome, query,
                   payload, entity, encodeVars, conditionVars, columnVars, objectVars, messageVars>>

\* _parse_relate: the re-fetch raises, and so does _parse_relate
ParseRelateFetchFails ==
    /\ pc = "fetch"
    /\ fetch_relationship_metadata' = TRUE
    /\ outcome' = "raise"
    /\ pc' = "idle"
    /\ UNCHANGED <<org, metadata, relate_request, inferred, validated,
                   refetched, query, payload, entity, encodeVars, conditionVars, columnVars, objectVars, messageVars>>

\* _parse_relate from the construction of the RelateRequest to its end
ParseRelateResolve ==
    /\ pc = "resolve"
    /\ LET given == relate_request.relationship_name
           req0 == RelateRequest(relate_request.primary_record,
                                 relate_request.related_records, metadata, given)
           inf == IF given = None THEN parse_relationship_name(req0) ELSE NotRun
           req1 == IF given = None /\ inf.status = "ok"
                   THEN [req0 EXCEPT !.relationship_name = inf.rel.schema_name,
                                     !.relationship_type = inf.rel]
                   ELSE req0
           val == IF given = None /\ inf.status # "ok"
                  THEN NotRun
                  ELSE validate_relationship_name(req1)
       IN  /\ inferred' = inf
           /\ validated' = val
           /\ relate_request' = IF val.status = "ok"
                                THEN [req1 EXCEPT !.relationship_type = val.rel]
                                ELSE req1
           /\ outcome' = IF val.status = "ok" THEN "ok" ELSE "raise"
    /\ pc' = "idle"
    /\ UNCHANGED <<org, metadata, fetch_relationship_metadata, refetched, query,
                   payload, entity, encodeVars, conditionVars, columnVars, objectVars, messageVars>>

\* the entity of the primary record; EntityDefinitions holds the two entities
\* in either order and the descriptors in either orientation, so the other
\* choice of primary is the same model with the two names swapped
PrimaryNames == {"account"}

NextRelate ==
    \/ RefreshMetadata
    \/ RefreshMetadataFails
    \/ \E target \in PrimaryNames :
          \E related \in EntityNames \ {target},
             relationship_name \in SchemaNames \cup {None} :
             ParseRelateCall(target, related, relationship_name)
    \/ ParseRelateFetch
    \/ ParseRelateFetchFails
    \/ ParseRelateResolve

SpecRelate == InitRelate /\ [][NextRelate]_vars

(***************************************************************************)
(* Scalars of Python and JSON: None/null, booleans, integers, strings.     *)
(***************************************************************************)
JNull == [t |-> "null"]
JBool(b) == [t |-> "bool", v |-> b]
JInt(n) == [t |-> "int", v |-> n]
JStr(s) == [t |-> "str", v |-> s]

\* bool(x), the truth value that "if x" and "not x" test
Truthy(x) ==
    CASE x.t = "null" -> FALSE
      [] x.t = "bool" -> x.v
      [] x.t = "int" -> x.v # 0
      [] x.t = "str" -> x.v # ""
      [] x.t = "uuid" -> TRUE

\* str(n) for the integers of the model
IntStr(n) ==
    CASE n = 0 -> "0" [] n = 1 -> "1" [] n = 2 -> "2" [] n = 3 -> "3"
      [] n = 4 -> "4" [] n = 5 -> "5" [] OTHER -> "6"

\* str(x)
PyStr(x) ==
    CASE x.t = "null" -> "None"
      [] x.t = "bool" -> IF x.v THEN "True" ELSE "False"
      [] x.t = "int" -> IntStr(x.v)
      [] x.t = "str" -> x.v
      [] x.t = "uuid" -> x.v

(***************************************************************************)
(* QueryExpression and its compilation to FetchXML                         *)
(* (query/_query_expression.py).  An XML element is a record of its tag,   *)
(* its attributes in order, its text and its children in order;            *)
(* ET.tostring writes the text of the query from exactly these.            *)
(***************************************************************************)
Element(tag, attrib, text, children) ==
    [tag |-> tag, attrib |-> attrib, text |-> text, children |-> children]

\* ColumnSet.__post_init__ has turned True into the empty list
ColumnSet(columns) == [columns |-> columns]

ListOperators == {"in", "not-in"}

\* a ConditionExpression.value: None, or a list of scalars
NoneValue == [list |-> FALSE, items |-> <<>>]
ListValue(items) == [list |-> TRUE, items |-> items]

\* _filter_to_fetchxml raises on this condition
ConditionRaises(condition) ==
    /\ ~(condition.operator \in ListOperators /\ condition.value.items # <<>>
           /\ condition.value.list)
    /\ condition.value.list
    /\ Len(condition.value.items) # 1

\* the condition element that _filter_to_fetchxml builds
ConditionElement(condition) ==
    LET head == <<<<"attribute", condition.attribute_name>>,
                  <<"operator", condition.operator>>>>
    IN  IF /\ condition.operator \in ListOperators
           /\ condition.value.list
           /\ condition.value.items # <<>>
        THEN Element("condition", head \o <<<<"value", "">>>>, "",
                     [i \in DOMAIN condition.value.items |->
                         Element("value", <<>>, PyStr(condition.value.items[i]), <<>>)])
        ELSE IF ~condition.value.list
        THEN Element("condition", head \o <<<<"value", "None">>>>, "", <<>>)
        ELSE Element("condition",
                     head \o <<<<"value", PyStr(condition.value.items[1])>>>>, "", <<>>)

RECURSIVE FilterRaises(_)
FilterRaises(filter_expression) ==
    \/ \E i \in DOMAIN filter_expression.conditions :
          ConditionRaises(filter_expression.conditions[i])
    \/ \E i \in DOMAIN filter_expression.filters :
          FilterRaises(filter_expression.filters[i])

RECURSIVE _filter_to_fetchxml(_)
_filter_to_fetchxml(filter_expression) ==
    Element("filter",
            <<<<"type", IF filter_expression.filter_operator = "AND"
                        THEN "and" ELSE "or">>>>, "",
            [i \in DOMAIN filter_expression.conditions |->
                ConditionElement(filter_expression.conditions[i])]
            \o [i \in DOMAIN filter_expression.filters |->
                _filter_to_fetchxml(filter_expression.filters[i])])

RECURSIVE LinkEntityRaises(_)
LinkEntityRaises(link_entity) ==
    \/ link_entity.link_criteria # NoObject /\ FilterRaises(link_entity.link_criteria)
    \/ \E i \in DOMAIN link_entity.link_entities :
          LinkEntityRaises(link_entity.link_entities[i])

RECURSIVE _link_entity_to_fetchxml(_)
_link_entity_to_fetchxml(link_entity) ==
    Element("link-entity",
            <<<<"name", link_entity.link_to_entity_name>>,
              <<"from_", link_entity.link_from_attribute_name>>,
              <<"to", link_entity.link_to_attribute_name>>,
              <<"linktype", link_entity.join_operator>>>>, "",
            (IF link_entity.columns # NoObject
             THEN [i \in DOMAIN link_entity.columns.columns |->
                      Element("attribute",
                              <<<<"name", link_entity.columns.columns[i]>>>>, "", <<>>)]
             ELSE <<>>)
            \o (IF link_entity.link_criteria # NoObject
                THEN <<_filter_to_fetchxml(link_entity.link_criteria)>>
                ELSE <<>>)
            \o [i \in DOMAIN link_entity.link_entities |->
                   _link_entity_to_fetchxml(link_entity.link_entities[i])])

\* top_count is <<>> for None and <<n>> for the integer n
QueryRaises(q) ==
    \/ q.criteria # NoObject /\ FilterRaises(q.criteria)
    \/ \E i \in DOMAIN q.link_entities : LinkEntityRaises(q.link_entities[i])

_query_expression_to_fetchxml(q) ==
    Element("fetch",
            <<<<"version", "1.0">>, <<"outputformat", "xml-platform">>,
              <<"mapping", "logical">>,
              <<"distinct", IF q.distinct THEN "true" ELSE "false">>>>
            \o (IF q.top_count # <<>> /\ q.top_count[1] # 0
                THEN <<<<"top", IntStr(q.top_count[1])>>>>
                ELSE <<>>),
            "",
            <<Element("entity", <<<<"name", q.entity_name>>>>, "",
                (IF q.column_set.columns = <<>>
                 THEN <<Element("all-attributes", <<>>, "", <<>>)>>
                 ELSE [i \in DOMAIN q.column_set.columns |->
                          Element("attribute",
                                  <<<<"name", q.column_set.columns[i]>>>>, "", <<>>)])
                \o (IF q.criteria # NoObject
                    THEN <<_filter_to_fetchxml(q.criteria)>>
                    ELSE <<>>)
                \o [i \in DOMAIN q.orders |->
                       Element("order",
                               <<<<"attribute", q.orders[i].attribute_name>>,
                                 <<"descending",
                                   IF q.orders[i].order_type = "DESC"
                                   THEN "true" ELSE "false">>>>, "", <<>>)]
                \o [i \in DOMAIN q.link_entities |->
                       _link_entity_to_fetchxml(q.link_entities[i])])>>)

(***************************************************************************)
(* QueryExpression objects: construction, and the attribute assignments    *)
(* and list mutations that the (not frozen) dataclass accepts.             *)
(***************************************************************************)
ConditionExpression(attribute_name, operator, value) ==
    [attribute_name |-> attribute_name, operator |-> operator, value |-> value]

FilterExpression(filter_operator, conditions, filters) ==
    [filter_operator |-> filter_operator, conditions |-> conditions,
     filters |-> filters]

OrderExpression(attribute_name, order_type) ==
    [attribute_name |-> attribute_name, order_type |-> order_type]

LinkEntity(from_entity, from_attribute, to_entity, to_attribute, join_operator, columns, link_criteria, link_entities) ==
    [link_from_entity_name |-> from_entity,
     link_from_attribute_name |-> from_attribute,
     link_to_entity_name |-> to_entity,
     link_to_attribute_name |-> to_attribute,
     join_operator |-> join_operator, columns |-> columns,
     link_criteria |-> link_criteria, link_entities |-> link_entities]

\* the values the fields of a QueryExpression take in the model
QueryEntityNames == {"", "contact"}
QueryColumnSets == {ColumnSet(<<>>), ColumnSet(<<"fullname">>)}
QueryCriteria ==
    {NoObject,
     FilterExpression("OR",
        <<ConditionExpression("fullname", "eq", ListValue(<<JStr("Test")>>)),
          ConditionExpression("parentcustomerid", "null", NoneValue)>>,
        <<FilterExpression("AND",
            <<ConditionExpression("statecode", "in",
                                  ListValue(<<JInt(0), JInt(1)>>))>>, <<>>)>>),
     FilterExpression("AND",
        <<ConditionExpression("fullname", "eq",
                              ListValue(<<JStr("a"), JStr("b")>>))>>, <<>>)}
QueryOrders ==
    SeqsUpTo({OrderExpression("fullname", "ASC"),
              OrderExpression("fullname", "DESC")}, MaxOrders)
QueryLinkEntities ==
    {<<>>,
     <<LinkEntity("contact", "parentcustomerid", "account", "accountid", "inner",
                  ColumnSet(<<"name">>), NoObject,
                  <<LinkEntity("account", "ownerid", "systemuser", "systemuserid",
                               "outer", NoObject,
                               FilterExpression("AND",
                                  <<ConditionExpression("isdisabled", "eq",
                                       ListValue(<<JBool(FALSE)>>))>>, <<>>),
                               <<>>)>>)>>}
QueryTopCounts == {<<>>, <<0>>, <<1>>}

\* QueryExpression(...): __post_init__ validates, compiles and caches; the
\* model follows one object, so this is its construction
NewQueryExpression(entity_name, column_set, criteria, orders, link_entities, top_count, distinct) ==
    LET q == [entity_name |-> entity_name, column_set |-> column_set,
              criteria |-> criteria, orders |-> orders,
              link_entities |-> link_entities, top_count |-> top_count,
              distinct |-> distinct]
    IN  /\ query = NoQuery
        /\ IF \/ entity_name = ""
              \/ top_count # <<>> /\ top_count[1] < 1
              \/ QueryRaises(q)
           THEN UNCHANGED query
           ELSE query' = [kind |-> "QueryExpression", entity_name |-> entity_name,
                          column_set |-> column_set, criteria |-> criteria,
                          orders |-> orders, link_entities |-> link_entities,
                          top_count |-> top_count, distinct |-> distinct,
                          fetch_xml |-> _query_expression_to_fetchxml(q)]
        /\ UNCHANGED <<relateVars, decodeVars, encodeVars, conditionVars, columnVars, objectVars, messageVars>>

\* query.<field> = value: the dataclass is not frozen, the assignment is
\* stored and nothing else is touched
SetEntityName(value) ==
    /\ query # NoQuery
    /\ query' = [query EXCEPT !.entity_name = value]
    /\ UNCHANGED <<relateVars, decodeVars, encodeVars, conditionVars, columnVars, objectVars, messageVars>>

SetColumnSet(value) ==
    /\ query # NoQuery
    /\ query' = [query EXCEPT !.column_set = value]
    /\ UNCHANGED <<relateVars, decodeVars, encodeVars, conditionVars, columnVars, objectVars, messageVars>>

SetCriteria(value) ==
    /\ query # NoQuery
    /\ query' = [query EXCEPT !.criteria = value]
    /\ UNCHANGED <<relateVars, decodeVars, encodeVars, conditionVars, columnVars, objectVars, messageVars>>

SetOrders(value) ==
    /\ query # NoQuery
    /\ query' = [query EXCEPT !.orders = value]
    /\ UNCHANGED <<relateVars, decodeVars, encodeVars, conditionVars, columnVars, objectVars, messageVars>>

SetLinkEntities(value) ==
    /\ query # NoQuery
    /\ query' = [query EXCEPT !.link_entities = value]
    /\ UNCHANGED <<relateVars, decodeVars, encodeVars, conditionVars, columnVars, objectVars, messageVars>>

SetTopCount(value) ==
    /\ query # NoQuery
    /\ query' = [query EXCEPT !.top_count = value]
    /\ UNCHANGED <<relateVars, decodeVars, encodeVars, conditionVars, columnVars, objectVars, messageVars>>

SetDistinct(value) ==
    /\ query # NoQuery
    /\ query' = [query EXCEPT !.distinct = value]
    /\ UNCHANGED <<relateVars, decodeVars, encodeVars, conditionVars, columnVars, objectVars, messageVars>>

\* query.orders.append(order): the list the object holds is mutable
AppendOrder(order) ==
    /\ query # NoQuery
    /\ Len(query.orders) < MaxOrders
    /\ query' = [query EXCEPT !.orders = Append(@, order)]
    /\ UNCHANGED <<relateVars, decodeVars, encodeVars, conditionVars, columnVars, objectVars, messageVars>>

\* no ServiceClient call is in progress and none was made
RelateIdle ==
    /\ org = <<>>
    /\ metadata = NoRequest.org_metadata
    /\ fetch_relationship_metadata = FALSE
    /\ pc = "idle"
    /\ relate_request = NoRequest
    /\ inferred = NotRun
    /\ validated = NotRun
    /\ outcome = "none"
    /\ refetched = FALSE

InitQuery ==
    /\ RelateIdle
    /\ query = NoQuery
    /\ payload = NoPayload
    /\ entity = NoEntity
    /\ EncodeIdle
    /\ ConditionIdle
    /\ ColumnIdle
    /\ ObjectsIdle
    /\ MessagesIdle

NextQuery ==
    \/ \E entity_name \in QueryEntityNames, column_set \in QueryColumnSets,
          criteria \in QueryCriteria, orders \in QueryOrders,
          link_entities \in QueryLinkEntities, top_count \in QueryTopCounts,
          distinct \in BOOLEAN :
          NewQueryExpression(entity_name, column_set, criteria, orders,
                             link_entities, top_count, distinct)
    \/ \E value \in QueryEntityNames : SetEntityName(value)
    \/ \E value \in QueryColumnSets : SetColumnSet(value)
    \/ \E value \in QueryCriteria : SetCriteria(value)
    \/ \E value \in QueryOrders : SetOrders(value)
    \/ \E value \in QueryLinkEntities : SetLinkEntities(value)
    \/ \E value \in QueryTopCounts : SetTopCount(value)
    \/ \E value \in BOOLEAN : SetDistinct(value)
    \/ \E order \in {OrderExpression("fullname", "ASC"),
                     OrderExpression("fullname", "DESC")} : AppendOrder(order)

SpecQuery == InitQuery /\ [][NextQuery]_vars

\* C1: once a QueryExpression is constructed, its cached fetch_xml is the
\* FetchXML compilation of its current fields in every reachable state
C1_FetchXmlMatchesFields ==
    query # NoQuery => query.fetch_xml = _query_expression_to_fetchxml(query)

(***************************************************************************)
(* Entity and its attribute decoder (_entity.py).                          *)
(*                                                                         *)
(* A wire key is a record of its parts: the key is "_<base>_value" when    *)
(* lookup holds and "<base>" otherwise, followed by "@<annotation>" unless *)
(* ann is "none"; "@odata.context" is the key with no base.  The bases of  *)
(* the model neither start with "_" nor end with "_value".                 *)
(***************************************************************************)
Key(lookup, base, ann) == [lookup |-> lookup, base |-> base, ann |-> ann]

LookupLogicalName == "Microsoft.Dynamics.CRM.lookuplogicalname"
FormattedValue == "OData.Community.Display.V1.FormattedValue"

KeyOrder ==
    <<Key(FALSE, "", "odata.context"),
      Key(TRUE, "ownerid", "none"),
      Key(TRUE, "ownerid", LookupLogicalName),
      Key(TRUE, "ownerid", FormattedValue),
      Key(FALSE, "statecode", "none"),
      Key(FALSE, "statecode", FormattedValue),
      Key(FALSE, "accountid", "none"),
      Key(FALSE, "ownerid", "none")>>
Keys == {KeyOrder[i] : i \in DOMAIN KeyOrder}

\* two spellings of one UUID, and the other strings of the model
UuidLower == "0a1b2c3d-0000-4000-8000-00000000000f"
UuidUpper == "0A1B2C3D-0000-4000-8000-00000000000F"

Values ==
    {JNull, JBool(FALSE), JInt(0), JInt(1), JStr(""), JStr(UuidLower),
     JStr(UuidUpper), JStr("systemuser")}

\* uuid.UUID(x) succeeds
IsUuidText(x) == x.t = "str" /\ x.v \in {UuidLower, UuidUpper}

\* uuid.UUID(x): the UUID, which compares and prints in lower case
UUID(x) == [t |-> "uuid", v |-> UuidLower]

\* the message of the exception that uuid.UUID(x) raises
UuidError(x) ==
    CASE x.t = "str" -> "badly formed hexadecimal UUID string"
      [] x.t = "null" ->
            "one of the hex, bytes, bytes_le, fields, or int arguments must be given"
      [] x.t = "bool" -> "'bool' object has no attribute 'replace'"
      [] OTHER -> "'int' object has no attribute 'replace'"

\* the text of a key
KeyText(k) ==
    (IF k.lookup THEN "_" \o k.base \o "_value" ELSE k.base)
        \o (IF k.ann = "none" THEN "" ELSE "@" \o k.ann)

\* s in msg, for strings
Contains(msg, s) ==
    \E i \in 0..(Len(msg) - Len(s)) : SubSeq(msg, i + 1, i + Len(s)) = s

\* attribute.startswith("@")
StartsWithAt(k) == ~k.lookup /\ k.base = "" /\ k.ann # "none"

\* attribute.startswith("_") and attribute.endswith("_value")
IsLookupKey(k) == k.lookup /\ k.ann = "none"

\* attribute[1:-6] of a lookup key
LookupAttributeName(k) == Key(FALSE, k.base, "none")

\* a Python dict: its keys in insertion order and its values
EmptyDict == [keys |-> <<>>, value |-> <<>>]
DictHas(d, k) == \E i \in DOMAIN d.keys : d.keys[i] = k
DictGet(d, k) == IF DictHas(d, k) THEN d.value[k] ELSE JNull
DictSet(d, k, v) ==
    IF DictHas(d, k)
    THEN [d EXCEPT !.value = [x \in DOMAIN d.value |-> IF x = k THEN v ELSE d.value[x]]]
    ELSE [keys |-> Append(d.keys, k),
          value |-> [x \in {d.keys[i] : i \in DOMAIN d.keys} \cup {k} |->
                        IF x = k THEN v ELSE d.value[x]]]

\* f"{attribute}@<annotation>" looked up in the attributes: an annotated key
\* has no annotation key of its own among the keys of the model
HasAnnotation(attributes, k, ann) ==
    k.ann = "none" /\ DictHas(attributes, [k EXCEPT !.ann = ann])
GetAnnotation(attributes, k, ann) ==
    IF HasAnnotation(attributes, k, ann)
    THEN DictGet(attributes, [k EXCEPT !.ann = ann])
    ELSE JNull

\* isinstance(x, int): bool is a subclass of int
IsInstanceInt(x) == x.t \in {"int", "bool"}

\* EntityReference(...) raises (its __post_init__)
EntityReferenceRaises(entity_logical_name, name) == entity_logical_name = ""

EntityReferenceError ==
    "EntityReference entity_logical_name of type string is required."

EntityReference(entity_logical_name, entity_id, name) ==
    [t |-> "EntityReference", entity_logical_name |-> entity_logical_name,
     entity_id |-> entity_id, name |-> name]

OptionSet(label, value) == [t |-> "OptionSet", label |-> label, value |-> value]

\* f"{self.entity_logical_name}id" for the entity of the model
IdAttribute(logical_name) ==
    CASE logical_name = "account" -> "accountid"
      [] logical_name = "contact" -> "contactid"

\* the state of the loop of _parse_attributes: the dict built so far, the
\* entity_id set so far, and whether an exception has left the loop, with the
\* message of the exception
ParseState(parsed, entity_id, raised) ==
    [parsed |-> parsed, entity_id |-> entity_id, raised |-> raised, message |-> ""]

\* one iteration of the loop of _parse_attributes
ParseAttribute(logical_name, attributes, st, attribute) ==
    LET value == DictGet(attributes, attribute)
    IN  IF StartsWithAt(attribute) THEN st
        ELSE IF IsLookupKey(attribute)
        THEN IF ~Truthy(value) THEN st
             ELSE LET lln == PyStr(GetAnnotation(attributes, attribute,
                                                 LookupLogicalName))
                      name == PyStr(GetAnnotation(attributes, attribute,
                                                  FormattedValue))
                  IN  IF ~IsUuidText(value)
                      THEN [st EXCEPT !.raised = TRUE, !.message = UuidError(value)]
                      ELSE IF EntityReferenceRaises(lln, name)
                      THEN [st EXCEPT !.raised = TRUE,
                                      !.message = EntityReferenceError]
                      ELSE [st EXCEPT !.parsed =
                               DictSet(@, LookupAttributeName(attribute),
                                       EntityReference(lln, UUID(value), name))]
        ELSE IF IsInstanceInt(value) /\ HasAnnotation(attributes, attribute,
                                                      FormattedValue)
        THEN [st EXCEPT !.parsed =
                 DictSet(@, attribute,
                         OptionSet(GetAnnotation(attributes, attribute,
                                                 FormattedValue), value))]
        ELSE IF attribute = Key(FALSE, IdAttribute(logical_name), "none")
        THEN IF ~IsUuidText(value)
             THEN [st EXCEPT !.raised = TRUE, !.message = UuidError(value)]
             ELSE [st EXCEPT !.entity_id = UUID(value),
                             !.parsed = DictSet(@, attribute, value)]
        ELSE [st EXCEPT !.parsed = DictSet(@, attribute, value)]

\* _parse_attributes(list(attributes.keys())), from the i-th key on
RECURSIVE _parse_attributes(_, _, _, _)
_parse_attributes(logical_name, attributes, st, i) ==
    IF st.raised \/ i > Len(attributes.keys) THEN st
    ELSE _parse_attributes(logical_name, attributes,
                           ParseAttribute(logical_name, attributes, st,
                                          attributes.keys[i]),
                           i + 1)

\* Entity(entity_logical_name, attributes=attributes): __post_init__
EntityPostInit(logical_name, attributes) ==
    IF attributes.keys = <<>>
    THEN [kind |-> "Entity", entity_logical_name |-> logical_name,
          entity_id |-> JNull, attributes |-> EmptyDict]
    ELSE LET st == _parse_attributes(logical_name, attributes,
                                     ParseState(EmptyDict, JNull, FALSE), 1)
         IN  IF st.raised
             THEN [kind |-> "raise", message |-> st.message]
             ELSE [kind |-> "Entity", entity_logical_name |-> logical_name,
                   entity_id |-> st.entity_id, attributes |-> st.parsed]

\* the wire objects of the model: at most MaxKeys of the keys, each with any
\* of the values, in the order of KeyOrder or in the reverse order
Reverse(s) == [i \in DOMAIN s |-> s[Len(s) + 1 - i]]
KeySets == {T \in SUBSET Keys : Cardinality(T) <= MaxKeys}
Payload(S, f, reversed) ==
    [keys |-> IF reversed
              THEN Reverse(SelectSeq(KeyOrder, LAMBDA k : k \in S))
              ELSE SelectSeq(KeyOrder, LAMBDA k : k \in S),
     value |-> f]

\* Entity(entity_logical_name="account", attributes=wire) for a wire object
\* over one of the key sets: the model follows one construction
NewEntityFrom(keysets) ==
    /\ entity = NoEntity
    /\ payload = NoPayload
    /\ \E S \in keysets :
          \E f \in [S -> Values], reversed \in BOOLEAN :
             /\ payload' = Payload(S, f, reversed)
             /\ entity' = EntityPostInit("account", Payload(S, f, reversed))
    /\ UNCHANGED <<relateVars, queryVars, encodeVars, conditionVars, columnVars, objectVars, messageVars>>

InitDecode ==
    /\ RelateIdle
    /\ query = NoQuery
    /\ payload = NoPayload
    /\ entity = NoEntity
    /\ EncodeIdle
    /\ ConditionIdle
    /\ ColumnIdle
    /\ ObjectsIdle
    /\ MessagesIdle

NewEntity == NewEntityFrom(KeySets)

NextDecode == NewEntity

SpecDecode == InitDecode /\ [][NextDecode]_vars

(***************************************************************************)
(* The attribute encoder parse_entity_to_web_api_body (utils/_dataverse.py). *)
(* Of an EntityMetadata the encoder reads the logical name, the collection *)
(* name and the attributes.                                                *)
(***************************************************************************)
AttributeMetadata(logical_name, attribute_type, schema_name) ==
    [logical_name |-> logical_name, attribute_type |-> attribute_type,
     schema_name |-> schema_name]

EntityAttributes(logical_name, logical_collection_name, attributes) ==
    [logical_name |-> logical_name,
     logical_collection_name |-> logical_collection_name,
     attributes |-> attributes]

OrgMetadata(entities) == [entities |-> entities, contains_relationships |-> FALSE]

\* the attribute lists of account's metadata in the model
EncodeAttributeLists ==
    {<<>>,
     <<AttributeMetadata("statecode", "State", "StateCode")>>,
     <<AttributeMetadata("ownerid", "Lookup", "OwnerId")>>,
     <<AttributeMetadata("ownerid", "Owner", "OwnerId")>>,
     <<AttributeMetadata("statecode", "State", "StateCode"),
       AttributeMetadata("ownerid", "Lookup", "OwnerId")>>}

\* the metadata of the entity that references point to: absent, present, or
\* present without a collection name
TargetEntries ==
    {<<>>,
     <<EntityAttributes("systemuser", "systemusers", <<>>)>>,
     <<EntityAttributes("systemuser", None, <<>>)>>}

EncodeOrgMetadata ==
    {NoObject, OrgMetadata(<<>>),
     OrgMetadata(<<EntityAttributes("systemuser", "systemusers", <<>>)>>)}
    \cup {OrgMetadata(<<EntityAttributes("account", "accounts", a)>> \o t) :
             a \in EncodeAttributeLists, t \in TargetEntries}

Body(d) == [kind |-> "body", body |-> d]
EncodeRaised(message) == [kind |-> "raise", message |-> message]
NothingToSend == [kind |-> "None"]

\* the state of the loop of parse_entity_to_web_api_body
EncodeState(body, raised, message) ==
    [body |-> body, raised |-> raised, message |-> message]

\* the loop body with the bind field keyed by the attribute's logical name
\* in place of its metadata's schema name
EncodeAttribute_BindsLogicalName(org_metadata, entity_metadata, attributes, st, attr) ==
    LET value == DictGet(attributes, attr)
    IN  IF value.t = "EntityReference"
        THEN [st EXCEPT !.body =
                 DictSet(@, Key(FALSE, KeyText(attr), "odata.bind"),
                         JStr("/" \o value.entity_logical_name \o "("
                                  \o PyStr(value.entity_id) \o ")"))]
        ELSE IF value.t = "OptionSet"
        THEN [st EXCEPT !.body = DictSet(@, attr, value.value)]
        ELSE [st EXCEPT !.body = DictSet(@, attr, value)]

\* one iteration of the loop of parse_entity_to_web_api_body
EncodeAttribute(org_metadata, entity_metadata, attributes, st, attr) ==
    LET value == DictGet(attributes, attr)
    IN  IF value.t = "EntityReference"
        THEN LET a == FirstIndex(entity_metadata.attributes, {KeyText(attr)})
                 e == FirstIndex(org_metadata.entities, {value.entity_logical_name})
                 binding_to == IF e = 0 THEN None
                               ELSE org_metadata.entities[e].logical_collection_name
             IN  IF a = 0 \/ entity_metadata.attributes[a].attribute_type # "Lookup"
                 THEN EncodeState(st.body, TRUE,
                         "Attribute metadata not found for column: " \o KeyText(attr))
                 ELSE IF binding_to = None \/ binding_to = ""
                 THEN EncodeState(st.body, TRUE,
                         "Entity collection name not found for entity: "
                             \o value.entity_logical_name)
                 ELSE [st EXCEPT !.body =
                          DictSet(@, Key(FALSE, entity_metadata.attributes[a].schema_name,
                                         "odata.bind"),
                                  JStr("/" \o binding_to \o "("
                                           \o PyStr(value.entity_id) \o ")"))]
        ELSE IF value.t = "OptionSet"
        THEN [st EXCEPT !.body = DictSet(@, attr, value.value)]
        ELSE [st EXCEPT !.body = DictSet(@, attr, value)]

\* the loop of parse_entity_to_web_api_body, from the i-th attribute on
RECURSIVE EncodeLoop(_, _, _, _, _)
EncodeLoop(org_metadata, entity_metadata, attributes, st, i) ==
    IF st.raised \/ i > Len(attributes.keys) THEN st
    ELSE EncodeLoop(org_metadata, entity_metadata, attributes,
                    EncodeAttribute(org_metadata, entity_metadata, attributes, st,
                                    attributes.keys[i]),
                    i + 1)

parse_entity_to_web_api_body(ent, org_metadata) ==
    IF ent.attributes.keys = <<>> THEN NothingToSend
    ELSE IF org_metadata = NoObject THEN EncodeRaised("Organization Metadata required.")
    ELSE IF org_metadata.entities = <<>>
    THEN EncodeRaised("Organization metadata entities not found")
    ELSE LET e == FirstIndex(org_metadata.entities, {ent.entity_logical_name})
         IN  IF e = 0
             THEN EncodeRaised("Entity metadata not found for entity: "
                                  \o ent.entity_logical_name)
             ELSE IF org_metadata.entities[e].attributes = <<>>
             THEN EncodeRaised("Entity metadata attributes not found")
             ELSE LET st == EncodeLoop(org_metadata, org_metadata.entities[e],
                                       ent.attributes,
                                       EncodeState(EmptyDict, FALSE, ""), 1)
                  IN  IF st.raised THEN EncodeRaised(st.message) ELSE Body(st.body)

\* the keys of the wire objects that are decoded and then encoded
EncodeKeys ==
    {Key(TRUE, "ownerid", "none"), Key(TRUE, "ownerid", LookupLogicalName),
     Key(FALSE, "statecode", "none"), Key(FALSE, "statecode", FormattedValue),
     Key(FALSE, "accountid", "none")}
EncodeKeySets == {T \in SUBSET EncodeKeys : Cardinality(T) <= MaxKeys}

NewEncodeEntity == NewEntityFrom(EncodeKeySets)

\* parse_entity_to_web_api_body(entity, org_metadata)
Encode(org_metadata) ==
    /\ entity # NoEntity
    /\ entity.kind = "Entity"
    /\ api_body = NoBody
    /\ encode_metadata' = org_metadata
    /\ api_body' = parse_entity_to_web_api_body(entity, org_metadata)
    /\ UNCHANGED <<relateVars, queryVars, decodeVars, conditionVars, columnVars, objectVars, messageVars>>

NextEncode ==
    \/ NewEncodeEntity
    \/ \E org_metadata \in EncodeOrgMetadata : Encode(org_metadata)

SpecEncode == InitDecode /\ [][NextEncode]_vars

(***************************************************************************)
(* ConditionExpression.__post_init__ (models/condition_expression.py) and  *)
(* the condition element that _filter_to_fetchxml builds for the result.   *)
(* A supplied value is a scalar or ListValue(items).                       *)
(***************************************************************************)
\* the most values IN and NOT_IN accept
MaxInValues == 500

NullOperators == {"null", "not-null"}
ConditionOperators == {"eq", "like", "in", "not-in", "null", "not-null"}

ConditionScalars ==
    {JBool(FALSE), JBool(TRUE), JInt(0), JInt(1), JStr(""), JStr("John"),
     UUID(JStr(UuidLower))}

Repeat(v, n) == [i \in 1..n |-> v]

ConditionValues ==
    {JNull} \cup ConditionScalars
    \cup {ListValue(l) : l \in SeqsUpTo({JInt(0), JStr(""), JStr("John")}, 2)}
    \cup {ListValue(Repeat(JStr("John"), n)) : n \in 3..MaxValues}

\* isinstance(value, list)
IsList(value) == "list" \in DOMAIN value

\* bool(value) of a supplied value
ValueTruthy(value) == IF IsList(value) THEN value.items # <<>> ELSE Truthy(value)

Constructed(object, supplied) ==
    [status |-> "ok", object |-> object, supplied |-> supplied]
ConstructionRaised(message, supplied) ==
    [status |-> "raise", message |-> message, supplied |-> supplied]

\* __post_init__ with at least MaxInValues values refused
ConditionPostInit_RefusesMaxInValues(attribute_name, operator, value) ==
    LET supplied == ConditionExpression(attribute_name, operator, value)
        normal == IF ~ValueTruthy(value) THEN NoneValue
                  ELSE IF IsList(value) THEN value ELSE ListValue(<<value>>)
        final == IF operator \in NullOperators THEN NoneValue ELSE normal
    IN  IF attribute_name = ""
        THEN ConstructionRaised("Attribute name is required", supplied)
        ELSE IF operator \in ListOperators /\ final = NoneValue
        THEN ConstructionRaised("Value are required for IN/NOT IN operators", supplied)
        ELSE IF operator \in ListOperators /\ Len(final.items) >= MaxInValues
        THEN ConstructionRaised(
                "Value must contain less than 500 value for IN/NOT IN operators",
                supplied)
        ELSE Constructed(ConditionExpression(attribute_name, operator, final), supplied)

\* ConditionExpression(attribute_name, operator, value): __post_init__
ConditionPostInit(attribute_name, operator, value) ==
    LET supplied == ConditionExpression(attribute_name, operator, value)
        normal == IF ~ValueTruthy(value) THEN NoneValue
                  ELSE IF IsList(value) THEN value ELSE ListValue(<<value>>)
        final == IF operator \in NullOperators THEN NoneValue ELSE normal
    IN  IF attribute_name = ""
        THEN ConstructionRaised("Attribute name is required", supplied)
        ELSE IF operator \in ListOperators /\ final = NoneValue
        THEN ConstructionRaised("Value are required for IN/NOT IN operators", supplied)
        ELSE IF operator \in ListOperators /\ Len(final.items) > MaxInValues
        THEN ConstructionRaised(
                "Value must contain less than 500 value for IN/NOT IN operators",
                supplied)
        ELSE Constructed(ConditionExpression(attribute_name, operator, final), supplied)

NewConditionExpression(attribute_name, operator, value) ==
    /\ condition_expression = NoObject
    /\ condition_expression' = ConditionPostInit(attribute_name, operator, value)
    /\ UNCHANGED <<relateVars, queryVars, decodeVars, encodeVars, condition_element, columnVars, objectVars, messageVars>>

\* _filter_to_fetchxml(FilterExpression(conditions=[condition])): the element
\* of the condition, or the exception
CompileCondition ==
    /\ condition_expression # NoObject
    /\ condition_expression.status = "ok"
    /\ condition_element = NoObject
    /\ condition_element' =
          IF ConditionRaises(condition_expression.object)
          THEN [status |-> "raise"]
          ELSE [status |-> "ok",
                element |-> _filter_to_fetchxml(
                               FilterExpression("AND",
                                                <<condition_expression.object>>,
                                                <<>>)).children[1]]
    /\ UNCHANGED <<relateVars, queryVars, decodeVars, encodeVars, condition_expression, columnVars, objectVars, messageVars>>

InitCondition ==
    /\ RelateIdle
    /\ query = NoQuery
    /\ payload = NoPayload
    /\ entity = NoEntity
    /\ EncodeIdle
    /\ ConditionIdle
    /\ ColumnIdle
    /\ ObjectsIdle
    /\ MessagesIdle

NextCondition ==
    \/ \E attribute_name \in {"", "name"}, operator \in ConditionOperators,
          value \in ConditionValues :
          NewConditionExpression(attribute_name, operator, value)
    \/ CompileCondition

SpecCondition == InitCondition /\ [][NextCondition]_vars

(***************************************************************************)
(* ColumnSet.__post_init__ (models/column_set.py) and the link-entity      *)
(* element that _link_entity_to_fetchxml builds around the result.  The    *)
(* columns of a built ColumnSet are scalars as supplied; a column that is  *)
(* no string cannot be written by ET.tostring.                             *)
(***************************************************************************)
ColumnInputs ==
    {JNull, JBool(FALSE), JBool(TRUE)}
    \cup {ListValue(l) :
            l \in SeqsUpTo({JStr("name"), JStr("email"), JStr(""), JInt(1)},
                           MaxColumns)}

\* ColumnSet(columns): __post_init__; the object is its columns list
ColumnSetPostInit(columns) ==
    IF ~ValueTruthy(columns)
    THEN ConstructionRaised("Columns must be a list of strings or a value of True",
                            columns)
    ELSE IF ~IsList(columns) /\ columns.t = "bool"
    THEN Constructed(<<>>, columns)
    ELSE Constructed(columns.items, columns)

NewColumnSet(columns) ==
    /\ column_set_built = NoObject
    /\ column_set_built' = ColumnSetPostInit(columns)
    /\ UNCHANGED <<relateVars, queryVars, decodeVars, encodeVars, conditionVars,
                   link_element, objectVars, messageVars>>

\* the ColumnSet of the query model for a built ColumnSet of strings
ColumnNames(columns) == ColumnSet([i \in DOMAIN columns |-> columns[i].v])

\* the link-entity element of a query whose LinkEntity has the built
\* ColumnSet as its columns
CompileLink ==
    /\ column_set_built # NoObject
    /\ column_set_built.status = "ok"
    /\ link_element = NoObject
    /\ link_element' =
          IF \E i \in DOMAIN column_set_built.object :
                column_set_built.object[i].t # "str"
          THEN [status |-> "raise"]
          ELSE [status |-> "ok",
                element |-> _link_entity_to_fetchxml(
                               LinkEntity("contact", "parentcustomerid", "account",
                                          "accountid", "inner",
                                          ColumnNames(column_set_built.object),
                                          NoObject, <<>>))]
    /\ UNCHANGED <<relateVars, queryVars, decodeVars, encodeVars, conditionVars,
                   column_set_built, objectVars, messageVars>>

SpecColumns ==
    InitCondition /\ [][(\E columns \in ColumnInputs : NewColumnSet(columns))
                        \/ CompileLink]_vars

(***************************************************************************)
(* EntityReference (_entity_reference.py): construction and assignment.    *)
(* entity_reference holds the object, how the last operation ended, the    *)
(* entity_id it was given and the entity_id held before it.                *)
(***************************************************************************)
ReferenceIds ==
    {JNull, JBool(FALSE), JBool(TRUE), JInt(0), JInt(123), JStr(""),
     JStr("not a uuid"), JStr(UuidLower), JStr(UuidUpper), UUID(JStr(UuidLower))}

\* __setattr__("entity_id", value) raises ValueError
SetattrRaises(value) ==
    /\ Truthy(value)
    /\ \/ value.t \notin {"uuid", "str"}
       \/ value.t = "str" /\ ~IsUuidText(value)

\* the value that __setattr__("entity_id", value) stores
SetattrStored(value) ==
    IF Truthy(value) /\ value.t = "str" THEN UUID(value) ELSE value

ReferenceState(status, object, supplied, previous) ==
    [status |-> status, object |-> object, supplied |-> supplied,
     previous |-> previous]

NewEntityReference(entity_logical_name, entity_id, name) ==
    /\ entity_reference = NoObject
    /\ entity_reference' =
          IF SetattrRaises(entity_id) \/ EntityReferenceRaises(entity_logical_name, name)
          THEN ReferenceState("raise", NoObject, entity_id, JNull)
          ELSE ReferenceState("ok",
                              EntityReference(entity_logical_name,
                                              SetattrStored(entity_id), name),
                              entity_id, JNull)
    /\ UNCHANGED <<relateVars, queryVars, decodeVars, encodeVars, conditionVars,
                   columnVars, entity_collection, reference_collection,
                   messageVars>>

\* reference.entity_id = value
SetEntityId(value) ==
    /\ entity_reference # NoObject
    /\ entity_reference.object # NoObject
    /\ entity_reference' =
          IF SetattrRaises(value)
          THEN ReferenceState("raise", entity_reference.object, value,
                              entity_reference.object.entity_id)
          ELSE ReferenceState("ok",
                              [entity_reference.object EXCEPT
                                  !.entity_id = SetattrStored(value)],
                              value, entity_reference.object.entity_id)
    /\ UNCHANGED <<relateVars, queryVars, decodeVars, encodeVars, conditionVars,
                   columnVars, entity_collection, reference_collection,
                   messageVars>>

\* reference.name = value: stored as given
SetReferenceName(value) ==
    /\ entity_reference # NoObject
    /\ entity_reference.object # NoObject
    /\ entity_reference' =
          ReferenceState("ok", [entity_reference.object EXCEPT !.name = value],
                         entity_reference.object.entity_id,
                         entity_reference.object.entity_id)
    /\ UNCHANGED <<relateVars, queryVars, decodeVars, encodeVars, conditionVars,
                   columnVars, entity_collection, reference_collection,
                   messageVars>>

SpecReference ==
    InitCondition
    /\ [][(\E entity_logical_name \in {"", "account"}, entity_id \in ReferenceIds,
              name \in {None, "Acme"} :
              NewEntityReference(entity_logical_name, entity_id, name))
          \/ (\E value \in ReferenceIds : SetEntityId(value))
          \/ (\E value \in {None, "Acme"} : SetReferenceName(value))]_vars

(***************************************************************************)
(* EntityCollection and its _ValidatedEntityList (_entity_collection.py).  *)
(* entity_collection holds the collection's name, its _entities list and   *)
(* whether that list is a _ValidatedEntityList, how the last operation     *)
(* ended, the items it offered and the list before it.                     *)
(***************************************************************************)
OtherUuid == "1b2c3d4e-0000-4000-8000-00000000000a"

\* an Entity without attributes, and a value that is no Entity
CollectionItem(entity_logical_name, entity_id) ==
    [kind |-> "Entity", entity_logical_name |-> entity_logical_name,
     entity_id |-> entity_id]
NotAnEntity == [kind |-> "str", entity_logical_name |-> "", entity_id |-> JNull]

CollectionItems ==
    {CollectionItem("lead", UUID(JStr(UuidLower))),
     CollectionItem("lead", [t |-> "uuid", v |-> OtherUuid]),
     CollectionItem("lead", JNull),
     CollectionItem("contact", UUID(JStr(UuidLower))),
     NotAnEntity}

\* add_entity and remove_entity raise on the entity (lines 110-113, 119-122)
EntityArgumentRaises(item) ==
    \/ item.kind # "Entity"
    \/ ~Truthy(item.entity_id)
    \/ item.entity_logical_name = ""

\* _ValidatedEntityList._validate_entity raises
ValidateEntityRaises(parent_name, item) ==
    \/ EntityArgumentRaises(item)
    \/ item.entity_logical_name # parent_name

\* _ValidatedEntityList._validate_entities raises
ValidateEntitiesRaises(parent_name, items) ==
    \E i \in DOMAIN items : ValidateEntityRaises(parent_name, items[i])

CollectionState(status, entity_logical_name, entities, checked, offered, previous) ==
    [status |-> status, entity_logical_name |-> entity_logical_name,
     entities |-> entities, validated |-> checked, offered |-> offered,
     previous |-> previous]

\* the operation raised: nothing but the outcome changes
CollectionRaised(c, offered) ==
    CollectionState("raise", c.entity_logical_name, c.entities, c.validated,
                    offered, c.entities)

\* the operation left c with these entities
CollectionNow(c, entities, checked, offered) ==
    CollectionState("ok", c.entity_logical_name, entities, checked, offered,
                    c.entities)

CollectionBuilt == entity_collection # NoObject /\ "entities" \in DOMAIN entity_collection

ObjectsUnchanged ==
    UNCHANGED <<relateVars, queryVars, decodeVars, encodeVars, conditionVars,
                columnVars, entity_reference, reference_collection, messageVars>>

NewEntityCollection(entity_logical_name) ==
    /\ entity_collection = NoObject
    /\ entity_collection' =
          IF entity_logical_name = ""
          THEN ConstructionRaised("Entity logical name must be a string",
                                  entity_logical_name)
          ELSE CollectionState("ok", entity_logical_name, <<>>, TRUE, <<>>, <<>>)
    /\ ObjectsUnchanged

\* collection.entities = value
SetEntities(value) ==
    /\ CollectionBuilt
    /\ entity_collection' =
          IF ValidateEntitiesRaises(entity_collection.entity_logical_name, value)
          THEN CollectionRaised(entity_collection, value)
          ELSE CollectionNow(entity_collection, value, TRUE, value)
    /\ ObjectsUnchanged

\* collection.entities.append(item)
AppendEntity(item) ==
    /\ CollectionBuilt
    /\ Len(entity_collection.entities) < MaxEntities
    /\ entity_collection' =
          IF /\ entity_collection.validated
             /\ ValidateEntityRaises(entity_collection.entity_logical_name, item)
          THEN CollectionRaised(entity_collection, <<item>>)
          ELSE CollectionNow(entity_collection,
                             Append(entity_collection.entities, item),
                             entity_collection.validated, <<item>>)
    /\ ObjectsUnchanged

\* collection.entities.extend(items)
ExtendEntities(items) ==
    /\ CollectionBuilt
    /\ Len(entity_collection.entities) + Len(items) <= MaxEntities
    /\ entity_collection' =
          IF /\ entity_collection.validated
             /\ ValidateEntitiesRaises(entity_collection.entity_logical_name, items)
          THEN CollectionRaised(entity_collection, items)
          ELSE CollectionNow(entity_collection, entity_collection.entities \o items,
                             entity_collection.validated, items)
    /\ ObjectsUnchanged

\* collection.add_entity(item)
add_entity(item) ==
    /\ CollectionBuilt
    /\ Len(entity_collection.entities) < MaxEntities
    /\ entity_collection' =
          IF EntityArgumentRaises(item)
          THEN CollectionRaised(entity_collection, <<item>>)
          ELSE IF \E i \in DOMAIN entity_collection.entities :
                     entity_collection.entities[i] = item
          THEN CollectionNow(entity_collection, entity_collection.entities,
                             entity_collection.validated, <<item>>)
          ELSE IF /\ entity_collection.validated
                  /\ ValidateEntityRaises(entity_collection.entity_logical_name, item)
          THEN CollectionRaised(entity_collection, <<item>>)
          ELSE CollectionNow(entity_collection,
                             Append(entity_collection.entities, item),
                             entity_collection.validated, <<item>>)
    /\ ObjectsUnchanged

\* collection.remove_entity(item): the filtered list is a plain list
remove_entity(item) ==
    /\ CollectionBuilt
    /\ entity_collection' =
          IF EntityArgumentRaises(item)
          THEN CollectionRaised(entity_collection, <<>>)
          ELSE CollectionNow(entity_collection,
                             SelectSeq(entity_collection.entities,
                                       LAMBDA e :
                                          ~(/\ e.entity_id = item.entity_id
                                            /\ e.entity_logical_name =
                                                  item.entity_logical_name)),
                             FALSE, <<>>)
    /\ ObjectsUnchanged

SpecCollection ==
    InitCondition
    /\ [][(\E entity_logical_name \in {"", "lead"} :
              NewEntityCollection(entity_logical_name))
          \/ (\E value \in SeqsUpTo(CollectionItems, MaxEntities) : SetEntities(value))
          \/ (\E item \in CollectionItems : AppendEntity(item))
          \/ (\E items \in SeqsUpTo(CollectionItems, MaxEntities) :
                 ExtendEntities(items))
          \/ (\E item \in CollectionItems : add_entity(item))
          \/ (\E item \in CollectionItems : remove_entity(item))]_vars

(***************************************************************************)
(* EntityReferenceCollection (_entity_reference_collection.py).            *)
(* reference_collection holds the collection's name and list, how the last *)
(* operation ended, the references it offered and the list before it.      *)
(***************************************************************************)
References ==
    {EntityReference("account", UUID(JStr(UuidLower)), None),
     EntityReference("account", [t |-> "uuid", v |-> OtherUuid], None),
     EntityReference("account", JNull, None),
     EntityReference("contact", UUID(JStr(UuidLower)), None)}

\* the message of the ValueError of __post_init__, "" when it returns
ReferenceCollectionError(entity_logical_name, entity_references) ==
    IF entity_logical_name = ""
    THEN "Logical Name required for the entity reference collection"
    ELSE IF entity_references = <<>>
    THEN "Entity References required for the entity reference collection"
    ELSE IF \E i \in DOMAIN entity_references :
               entity_references[i].entity_logical_name # entity_logical_name
    THEN "Entity Logical Name must be the same for all Entity References"
    ELSE IF \E i \in DOMAIN entity_references : entity_references[i].entity_id = JNull
    THEN "All Entity References must have an Entity ID"
    ELSE ""

\* list.remove(x): the list without its first element equal to x
RemoveFirst(s, x) ==
    LET i == CHOOSE j \in DOMAIN s : s[j] = x /\ \A k \in 1..(j - 1) : s[k] # x
    IN  SubSeq(s, 1, i - 1) \o SubSeq(s, i + 1, Len(s))

ReferencesBuilt ==
    reference_collection # NoObject /\ "entities" \in DOMAIN reference_collection

ReferencesUnchanged ==
    UNCHANGED <<relateVars, queryVars, decodeVars, encodeVars, conditionVars,
                columnVars, entity_reference, entity_collection, messageVars>>

NewEntityReferenceCollection(entity_logical_name, entity_references) ==
    /\ reference_collection = NoObject
    /\ reference_collection' =
          IF ReferenceCollectionError(entity_logical_name, entity_references) # ""
          THEN ConstructionRaised(
                  ReferenceCollectionError(entity_logical_name, entity_references),
                  entity_references)
          ELSE CollectionState("ok", entity_logical_name, entity_references, FALSE,
                               entity_references, <<>>)
    /\ ReferencesUnchanged

\* collection.add(reference)
AddReference(reference) ==
    /\ ReferencesBuilt
    /\ Len(reference_collection.entities) < MaxReferences
    /\ reference_collection' =
          IF \/ reference.entity_logical_name #
                   reference_collection.entity_logical_name
             \/ reference.entity_id = JNull
          THEN CollectionRaised(reference_collection, <<reference>>)
          ELSE CollectionNow(reference_collection,
                             Append(reference_collection.entities,
                                    reference),
                             FALSE, <<reference>>)
    /\ ReferencesUnchanged

\* collection.remove(reference)
RemoveReference(reference) ==
    /\ ReferencesBuilt
    /\ reference_collection' =
          IF \E i \in DOMAIN reference_collection.entities :
                reference_collection.entities[i] = reference
          THEN CollectionNow(reference_collection,
                             RemoveFirst(reference_collection.entities,
                                         reference),
                             FALSE, <<>>)
          ELSE CollectionNow(reference_collection, reference_collection.entities,
                             FALSE, <<>>)
    /\ ReferencesUnchanged

SpecReferences ==
    InitCondition
    /\ [][(\E entity_logical_name \in {"", "account"},
              entity_references \in SeqsUpTo(References, MaxReferences) :
              NewEntityReferenceCollection(entity_logical_name, entity_references))
          \/ (\E reference \in References : AddReference(reference))
          \/ (\E reference \in References :
                 RemoveReference(reference))]_vars

(***************************************************************************)
(* get_associate_request (messages/_associate.py).  json_data is the list  *)
(* of the (key, value) pairs of the dict, in insertion order.              *)
(***************************************************************************)
BaseUrl == "https://org.crm.dynamics.com"

\* json_data[key] = value
JsonSet(json_data, key, value) ==
    IF \E i \in DOMAIN json_data : json_data[i][1] = key
    THEN [i \in DOMAIN json_data |->
             IF json_data[i][1] = key THEN <<key, value>> ELSE json_data[i]]
    ELSE Append(json_data, <<key, value>>)

\* get_entity_collection_name_by_logical_name; None is the string "None"
get_entity_collection_name_by_logical_name(org_metadata, logical_name) ==
    IF org_metadata.entities = <<>>
       \/ \A i \in DOMAIN org_metadata.entities :
             org_metadata.entities[i].logical_name # logical_name
    THEN None
    ELSE org_metadata.entities[
             CHOOSE i \in DOMAIN org_metadata.entities :
                /\ org_metadata.entities[i].logical_name = logical_name
                /\ \A j \in 1..(i - 1) :
                      org_metadata.entities[j].logical_name # logical_name
         ].logical_collection_name

\* the "@odata.id" of one related record
RelatedId(collection_name, related_record) ==
    BaseUrl \o "/api/data/v9.2/" \o collection_name
        \o "(" \o PyStr(related_record.entity_id) \o ")"

\* the loop over the related records (lines 386-392), from the i-th on
RECURSIVE AssociateLoop(_, _, _, _)
AssociateLoop(json_data, collection_name, entity_references, i) ==
    IF i > Len(entity_references) THEN json_data
    ELSE AssociateLoop(JsonSet(json_data, "@odata.id",
                               RelatedId(collection_name, entity_references[i])),
                       collection_name, entity_references, i + 1)

AssociateRaised(message, given) ==
    [status |-> "raise", message |-> message, given |-> given]

\* get_associate_request(dataverse_request, associate_request); given is the
\* associate_request, its related_records the list entity_references
get_associate_request(endpoint, given) ==
    LET collection_name ==
            get_entity_collection_name_by_logical_name(
                given.org_metadata,
                given.related_records[1].entity_logical_name)
        type == given.relationship_type
        many == type # NoObject /\ type.kind \in {"ManyToMany", "ManyToOne"}
    IN  IF given.relationship_name = None
        THEN AssociateRaised("Relationship name is required", given)
        ELSE IF collection_name = None
        THEN AssociateRaised("Could not determine related record collection name",
                             given)
        ELSE IF many /\ type.kind = "ManyToOne"
                /\ given.primary_record # type.referenced_entity
        THEN AssociateRaised(
                "Primary record must be the referenced entity for a many-to-one relationship",
                given)
        ELSE IF ~many /\ Len(given.related_records) > 1
        THEN AssociateRaised(
                "Cannot associate multiple records with a one-to-many relationship",
                given)
        ELSE IF ~many /\ type # NoObject /\ type.kind = "OneToMany"
                /\ given.primary_record # type.referenced_entity
        THEN AssociateRaised(
                "Primary record must be the referenced entity for a one-to-many relationship",
                given)
        ELSE [status |-> "ok", method |-> "POST",
              url |-> endpoint \o "/" \o given.relationship_name \o "/$ref",
              json |-> IF many
                       THEN AssociateLoop(<<>>, collection_name,
                                          given.related_records, 1)
                       ELSE <<<<"@odata.id",
                                RelatedId(collection_name,
                                          given.related_records[1])>>>>,
              given |-> given]

\* the relationship types, metadata and related records of the model
AssociateTypes ==
    {NoObject}
    \cup {r \in RelationshipMetadata : r.schema_name = "account_contacts"}
AssociateMetadata ==
    {OrgMetadata(<<>>),
     OrgMetadata(<<EntityAttributes("account", "accounts", <<>>)>>),
     OrgMetadata(<<EntityAttributes("account", "accounts", <<>>),
                   EntityAttributes("contact", "contacts", <<>>)>>)}
RelatedReferences ==
    {EntityReference("contact", UUID(JStr(UuidLower)), None),
     EntityReference("contact", [t |-> "uuid", v |-> OtherUuid], None)}

Associate(primary, related, md, name, type) ==
    /\ associate_request = NoObject
    /\ related # <<>>
    /\ associate_request' =
          get_associate_request(
              BaseUrl \o "/api/data/v9.2/" \o primary \o "s("
                  \o UuidLower \o ")",
              [RelateRequest(primary, related, md, name) EXCEPT
                  !.relationship_type = type])
    /\ UNCHANGED <<relateVars, queryVars, decodeVars, encodeVars, conditionVars,
                   columnVars, objectVars, DEFAULT_HEADERS, request_headers>>

SpecAssociate ==
    InitCondition
    /\ [][\E primary \in EntityNames,
             related \in SeqsUpTo(RelatedReferences, MaxRelated),
             md \in AssociateMetadata, name \in {None, "account_contacts"},
             type \in AssociateTypes :
             Associate(primary, related, md, name, type)]_vars

(***************************************************************************)
(* DataverseRequest and its headers (services/dataverse_request.py).       *)
(* `headers = DEFAULT_HEADERS` binds the module-level dict itself, so the  *)
(* assignments to headers[...] are assignments to DEFAULT_HEADERS.         *)
(***************************************************************************)
\* headers[name] = value
HeaderSet(headers, name, value) ==
    [n \in DOMAIN headers \cup {name} |-> IF n = name THEN value ELSE headers[n]]

\* DataverseRequest._prepare_headers: the dict after the call
_prepare_headers(headers, suppress_duplicate_detection, bypass_custom_plugin_execution, suppress_callback_registration_expander_job) ==
    LET h1 == IF suppress_duplicate_detection
              THEN HeaderSet(headers, "MSCRM.SuppressDuplicateDetection", "true")
              ELSE headers
        h2 == IF bypass_custom_plugin_execution
              THEN HeaderSet(h1, "MSCRM.BypassCustomPluginExecution", "true")
              ELSE h1
    IN  IF suppress_callback_registration_expander_job
        THEN HeaderSet(h2, "MSCRM.SuppressCallBackRegistrationExpanderJob", "true")
        ELSE h2

\* DataverseRequest(base_url, ..., flags): __post_init__
NewDataverseRequest(base_url, suppress_duplicate_detection, bypass_custom_plugin_execution, suppress_callback_registration_expander_job) ==
    LET flags == <<suppress_duplicate_detection, bypass_custom_plugin_execution,
                   suppress_callback_registration_expander_job>>
        headers == _prepare_headers(DEFAULT_HEADERS, suppress_duplicate_detection,
                                    bypass_custom_plugin_execution,
                                    suppress_callback_registration_expander_job)
    IN  /\ IF base_url = ""
           THEN /\ request_headers' =
                      ConstructionRaised(
                          "Base URL of type str required to parse request", flags)
                /\ UNCHANGED DEFAULT_HEADERS
           ELSE /\ request_headers' =
                      [status |-> "ok",
                       base_url |-> IF base_url = BaseUrl \o "/"
                                    THEN BaseUrl ELSE base_url,
                       supplied |-> flags, headers |-> headers]
                /\ DEFAULT_HEADERS' = headers
        /\ UNCHANGED <<relateVars, queryVars, decodeVars, encodeVars, conditionVars,
                       columnVars, objectVars, associate_request>>

\* ServiceClient._get_metadata: its headers are DEFAULT_HEADERS too, the
\* dict that the last request holds as its headers
SetAuthorization(token) ==
    /\ DEFAULT_HEADERS' = HeaderSet(DEFAULT_HEADERS, "Authorization",
                                    "Bearer " \o token)
    /\ request_headers' =
          IF request_headers # NoObject /\ request_headers.status = "ok"
          THEN [request_headers EXCEPT !.headers = DEFAULT_HEADERS']
          ELSE request_headers
    /\ UNCHANGED <<relateVars, queryVars, decodeVars, encodeVars, conditionVars,
                   columnVars, objectVars, associate_request>>

SpecHeaders ==
    InitCondition
    /\ [][(\E base_url \in {"", BaseUrl, BaseUrl \o "/"},
              suppress_duplicate_detection \in BOOLEAN,
              bypass_custom_plugin_execution \in BOOLEAN,
              suppress_callback_registration_expander_job \in BOOLEAN :
              NewDataverseRequest(base_url, suppress_duplicate_detection,
                                  bypass_custom_plugin_execution,
                                  suppress_callback_registration_expander_job))
          \/ (\E token \in {"token1", "token2"} : SetAuthorization(token))]_vars

(***************************************************************************)
(* Properties of the decoder.                                              *)
(***************************************************************************)
Decoded == entity # NoEntity /\ entity.kind = "Entity"

PayloadKeys == {payload.keys[i] : i \in DOMAIN payload.keys}

\* two keys of the payload decode to the same attribute name: a lookup key
\* and the plain key of its name
Collides(k) ==
    \/ IsLookupKey(k) /\ LookupAttributeName(k) \in PayloadKeys
    \/ \E l \in PayloadKeys : IsLookupKey(l) /\ LookupAttributeName(l) = k

\* C9: for every lookup key "_<name>_value" (whose name no other key of the
\* payload decodes to), a null value gives no attribute <name>; any other
\* value gives attribute <name>, an EntityReference of the annotation's
\* logical name, the value parsed as a UUID and the annotation's formatted
\* value, and no attribute under the raw key
C9_LookupDecodesToEntityReference ==
    Decoded =>
        \A k \in PayloadKeys :
            (IsLookupKey(k) /\ ~Collides(k)) =>
                LET name == LookupAttributeName(k)
                    value == payload.value[k]
                    lln == GetAnnotation(payload, k, LookupLogicalName)
                    fv == GetAnnotation(payload, k, FormattedValue)
                IN  IF value = JNull
                    THEN ~DictHas(entity.attributes, name)
                    ELSE /\ DictHas(entity.attributes, name)
                         /\ ~DictHas(entity.attributes, k)
                         /\ entity.attributes.value[name].t = "EntityReference"
                         /\ entity.attributes.value[name].entity_id = UUID(value)
                         /\ lln.t = "str" =>
                               entity.attributes.value[name].entity_logical_name
                                  = lln.v
                         /\ fv.t = "str" =>
                               entity.attributes.value[name].name = fv.v

\* C10: a key that is neither a lookup key nor an annotation key decodes to
\* OptionSet(value, label) iff its value is an integer (not a boolean) and
\* its FormattedValue annotation key is present; otherwise it is copied
\* through unchanged
C10_OptionSetIffIntegerWithLabel ==
    Decoded =>
        \A k \in PayloadKeys :
            (~IsLookupKey(k) /\ k.ann = "none" /\ ~Collides(k)) =>
                /\ DictHas(entity.attributes, k)
                /\ IF /\ payload.value[k].t = "int"
                      /\ HasAnnotation(payload, k, FormattedValue)
                   THEN entity.attributes.value[k]
                           = OptionSet(GetAnnotation(payload, k, FormattedValue),
                                       payload.value[k])
                   ELSE entity.attributes.value[k] = payload.value[k]

\* C11: decoding never emits an annotation key as an attribute: no key of the
\* decoded attribute map starts with "@" or is a companion annotation key
\* "<base>@<annotation>" of another key
C11_NoAnnotationKeyDecoded ==
    Decoded =>
        \A i \in DOMAIN entity.attributes.keys :
            /\ ~StartsWithAt(entity.attributes.keys[i])
            /\ entity.attributes.keys[i].ann = "none"

\* a lookup key of the payload that holds a string which is not a UUID
MalformedLookup(k) ==
    /\ k \in PayloadKeys
    /\ IsLookupKey(k)
    /\ payload.value[k].t = "str"
    /\ ~IsUuidText(payload.value[k])

\* the payload has no "<logical name>id" key that fails on its own
IdKeyParses ==
    \A k \in PayloadKeys :
        k = Key(FALSE, IdAttribute("account"), "none") => IsUuidText(payload.value[k])

\* C12: decoding a payload in which a lookup key holds a non-null string
\* that is not a well-formed UUID fails, the failure names an offending wire
\* key, and no Entity is produced
C12_MalformedLookupFailsNamingKey ==
    (entity # NoEntity /\ IdKeyParses /\ \E k \in Keys : MalformedLookup(k)) =>
        /\ entity.kind = "raise"
        /\ \E k \in Keys :
              MalformedLookup(k) /\ Contains(entity.message, KeyText(k))

(***************************************************************************)
(* Properties of the resolver.                                             *)
(***************************************************************************)
ResolverRan == inferred.status # "notrun" \/ validated.status # "notrun"
InferenceRan == inferred.status # "notrun"
ExplicitValidationRan == inferred.status = "notrun" /\ validated.status # "notrun"

\* the metadata entry of the primary record's entity in the request's snapshot
PrimaryEntry ==
    LET es == relate_request.org_metadata.entities
    IN  es[CHOOSE i \in DOMAIN es : es[i].logical_name = relate_request.primary_record]

\* the participant roles that make a descriptor a candidate: one-to-many has
\* the primary referenced and the related referencing, many-to-one is
\* mirrored, many-to-many takes the two entities in either order
RoleMatches(r) ==
    LET primary == relate_request.primary_record
        related == relate_request.related_records
    IN  CASE r.kind = "OneToMany" ->
                r.referenced_entity = primary /\ r.referencing_entity = related
          [] r.kind = "ManyToOne" ->
                r.referencing_entity = primary /\ r.referenced_entity = related
          [] r.kind = "ManyToMany" ->
                \/ r.entity_1_logical_name = primary
                   /\ r.entity_2_logical_name = related
                \/ r.entity_1_logical_name = related
                   /\ r.entity_2_logical_name = primary

OneToManyCandidates == SelectSeq(PrimaryEntry.one_to_many_relationships, RoleMatches)
ManyToOneCandidates == SelectSeq(PrimaryEntry.many_to_one_relationships, RoleMatches)
ManyToManyCandidates == SelectSeq(PrimaryEntry.many_to_many_relationships, RoleMatches)
AllCandidates == OneToManyCandidates \o ManyToOneCandidates \o ManyToManyCandidates

NameMatches(r) == Lower(r.schema_name) = Lower(relate_request.relationship_name)

\* C2: without an explicit name, parse_relationship_name returns a
\* relationship iff exactly one kind has role-matching candidates and that
\* kind has exactly one; the result is then that candidate and its schema name
C2_InferenceIffOneCandidateInOneKind ==
    InferenceRan =>
        LET kinds == {c \in {OneToManyCandidates, ManyToOneCandidates,
                             ManyToManyCandidates} : c # <<>>}
            unambiguous == Cardinality(kinds) = 1 /\ Len(AllCandidates) = 1
        IN  /\ (inferred.status = "ok") <=> unambiguous
            /\ unambiguous => inferred = Found(AllCandidates[1])

\* C3: with an explicit schema name, validate_relationship_name returns a
\* relationship only when exactly one entry across the three lists together
\* matches the roles and the schema name (case-insensitively), and it is
\* that entry
C3_ExplicitNeedsExactlyOneMatch ==
    (ExplicitValidationRan /\ validated.status = "ok") =>
        LET matches == SelectSeq(AllCandidates, NameMatches)
        IN  Len(matches) = 1 /\ validated.rel = matches[1]

\* C4: with two role-matching one-to-many relationships (of schema names that
\* differ beyond letter case), resolving without a name fails, and resolving
\* with the exact schema name of either returns exactly that relationship
C4_TwoOneToManyNeedExplicitName ==
    (ResolverRan /\ Len(OneToManyCandidates) = 2
       /\ Lower(OneToManyCandidates[1].schema_name)
            # Lower(OneToManyCandidates[2].schema_name)) =>
        /\ InferenceRan => (inferred.status = "none" /\ outcome = "raise")
        /\ \A i \in 1..2 :
              (ExplicitValidationRan
                 /\ relate_request.relationship_name
                      = OneToManyCandidates[i].schema_name) =>
                  (validated = Found(OneToManyCandidates[i]) /\ outcome = "ok")

\* C5: in both resolver paths a many-to-one descriptor is a candidate iff the
\* primary entity is its referencing and the related its referenced entity
C5_ManyToOneRolesMirrored ==
    /\ InferenceRan =>
          possible_many_to_one(relate_request, PrimaryEntry) = ManyToOneCandidates
    /\ ExplicitValidationRan =>
          ValidateManyToOne(relate_request, PrimaryEntry)
             = SelectSeq(ManyToOneCandidates, NameMatches)

\* C6: in both resolver paths a many-to-many descriptor is a candidate when
\* its two participants are the primary and the related entity in either order
C6_ManyToManyEitherOrder ==
    /\ InferenceRan =>
          possible_many_to_many(relate_request, PrimaryEntry) = ManyToManyCandidates
    /\ ExplicitValidationRan =>
          ValidateManyToMany(relate_request, PrimaryEntry)
             = SelectSeq(ManyToManyCandidates, NameMatches)

\* C7: with an explicit schema name the resolver searches the lists of the
\* metadata entry of the primary record's entity, whatever the entity order
C7_ExplicitSearchesPrimaryEntry ==
    ExplicitValidationRan =>
        /\ ValidateEntityIndex(relate_request) # 0
        /\ relate_request.org_metadata.entities[ValidateEntityIndex(relate_request)]
              .logical_name = relate_request.primary_record

\* C8: _parse_relate never runs the resolver on a snapshot whose
\* contains_relationships is false: with the flag false it re-fetches first
\* and the resolver runs on the new snapshot, whose flag is true
C8_ResolverOnlyOnRelationshipSnapshot ==
    /\ pc = "resolve" => metadata.contains_relationships
    /\ pc = "fetch" => ~ResolverRan
    /\ ResolverRan => relate_request.org_metadata.contains_relationships
    /\ (ResolverRan /\ refetched) =>
          relate_request.org_metadata = GetMetadata(TRUE)

C8_Witness ==
    /\ refetched
    /\ inferred.status = "ok"
    /\ validated.status = "ok"
    /\ relate_request.org_metadata.contains_relationships

(***************************************************************************)
(* Properties of the encoder.                                              *)
(***************************************************************************)
Encoded == api_body # NoBody

\* the encoder finds the metadata of the entity, with attributes
EncodeEntryFound ==
    /\ encode_metadata # NoObject
    /\ \E i \in DOMAIN encode_metadata.entities :
          /\ encode_metadata.entities[i].logical_name = entity.entity_logical_name
          /\ encode_metadata.entities[i].attributes # <<>>

\* the attributes of the Entity whose value is an EntityReference
ReferenceAttributes ==
    {k \in {entity.attributes.keys[i] : i \in DOMAIN entity.attributes.keys} :
        entity.attributes.value[k].t = "EntityReference"}

\* the AttributeMetadata records of an attribute of the Entity
MetadataOf(attr) ==
    LET es == encode_metadata.entities
        em == es[CHOOSE i \in DOMAIN es :
                    es[i].logical_name = entity.entity_logical_name]
    IN  {em.attributes[i] : i \in {j \in DOMAIN em.attributes :
                                     em.attributes[j].logical_name = KeyText(attr)}}

\* the collection names that the org metadata gives the target of a reference
CollectionsOf(attr) ==
    LET es == encode_metadata.entities
    IN  {es[i].logical_collection_name :
            i \in {j \in DOMAIN es :
                     /\ es[j].logical_name
                          = entity.attributes.value[attr].entity_logical_name
                     /\ es[j].logical_collection_name \notin {None, ""}}}

Encodable(attr) ==
    /\ \E am \in MetadataOf(attr) : am.attribute_type = "Lookup"
    /\ CollectionsOf(attr) # {}

Unencodable(attr) ==
    \/ MetadataOf(attr) = {}
    \/ \E am \in MetadataOf(attr) : am.attribute_type # "Lookup"
    \/ CollectionsOf(attr) = {}

\* C13: for every EntityReference attribute whose AttributeMetadata has the
\* lookup type tag (and whose target has a collection name), the body holds
\* exactly one field for it, keyed "<SchemaName>@odata.bind" with the value
\* "/<collection name>(<identifier>)", and no field under the attribute's
\* own logical name
C13_ReferenceEncodesToBind ==
    (Encoded /\ EncodeEntryFound /\ ReferenceAttributes # {}
       /\ \A attr \in ReferenceAttributes : Encodable(attr)) =>
        /\ api_body.kind = "body"
        /\ Len(api_body.body.keys) = Len(entity.attributes.keys)
        /\ \A attr \in ReferenceAttributes :
              \E am \in MetadataOf(attr), collection \in CollectionsOf(attr) :
                 LET field == Key(FALSE, am.schema_name, "odata.bind")
                     reference == entity.attributes.value[attr]
                 IN  /\ Cardinality({i \in DOMAIN api_body.body.keys :
                                        api_body.body.keys[i] = field}) = 1
                     /\ api_body.body.value[field]
                           = JStr("/" \o collection \o "("
                                      \o reference.entity_id.v \o ")")
                     /\ \A i \in DOMAIN api_body.body.keys :
                           api_body.body.keys[i] # attr

C13_Witness ==
    /\ Encoded
    /\ api_body.kind = "body"
    /\ ReferenceAttributes # {}
    /\ Len(api_body.body.keys) > 1
    /\ \E k \in PayloadKeys : IsLookupKey(k) /\ payload.value[k] = JStr(UuidUpper)

\* C14: when an EntityReference attribute has no AttributeMetadata, a type
\* tag other than lookup, or a target without collection name, the encoder
\* fails with an error that names such an attribute, and returns no body
C14_UnencodableReferenceFailsNamingAttribute ==
    (Encoded /\ EncodeEntryFound /\ \E attr \in ReferenceAttributes : Unencodable(attr)) =>
        /\ api_body.kind = "raise"
        /\ \E attr \in ReferenceAttributes :
              Unencodable(attr) /\ Contains(api_body.message, KeyText(attr))

\* the wire object holds plain scalar fields only
PlainPayload ==
    /\ PayloadKeys # {}
    /\ \A k \in PayloadKeys : ~k.lookup /\ k.ann = "none"

\* C15: a non-empty wire object of plain scalar fields decodes to an Entity,
\* and encoding that Entity yields exactly the original key/value pairs
C15_ScalarRoundTrip ==
    (entity # NoEntity /\ PlainPayload) =>
        /\ entity.kind = "Entity"
        /\ (Encoded /\ EncodeEntryFound) => api_body = Body(payload)

(***************************************************************************)
(* Properties of ConditionExpression and of its compilation.               *)
(***************************************************************************)
ConditionBuilt == condition_expression # NoObject /\ condition_expression.status = "ok"
ConditionCompiled == condition_element # NoObject /\ condition_element.status = "ok"

\* the names of the attributes of an element, and the value of one of them
AttributeNames(element) == {element.attrib[i][1] : i \in DOMAIN element.attrib}
AttributeValue(element, name) ==
    element.attrib[CHOOSE i \in DOMAIN element.attrib : element.attrib[i][1] = name][2]

\* C16: construction with IN or NOT_IN fails when no value or a list of 0
\* elements is given, or a list of more than 500 elements, and succeeds for
\* every list of 1 to 500 elements
C16_InBounds ==
    (/\ condition_expression # NoObject
     /\ condition_expression.supplied.attribute_name # ""
     /\ condition_expression.supplied.operator \in ListOperators
     /\ \/ condition_expression.supplied.value = JNull
        \/ IsList(condition_expression.supplied.value)) =>
        LET value == condition_expression.supplied.value
            n == IF IsList(value) THEN Len(value.items) ELSE 0
        IN  /\ (n = 0 \/ n > 500) => condition_expression.status = "raise"
            /\ (n >= 1 /\ n <= 500) =>
                  /\ condition_expression.status = "ok"
                  /\ condition_expression.object.value = value

C16_Witness ==
    /\ ConditionBuilt
    /\ condition_expression.object.operator = "not-in"
    /\ Len(condition_expression.object.value.items) = 500

\* C17: for an operator other than NULL/NOT_NULL a supplied scalar v is held
\* as [v] and a supplied list is kept in its order; for NULL and NOT_NULL
\* the value is absent
C17_ValueNormalized ==
    ConditionBuilt =>
        LET supplied == condition_expression.supplied
            held == condition_expression.object.value
        IN  IF supplied.operator \in NullOperators THEN held = NoneValue
            ELSE IF IsList(supplied.value) THEN held = supplied.value
            ELSE supplied.value # JNull => held = ListValue(<<supplied.value>>)

\* C18: for NULL and NOT_NULL the compiled condition element has no value
\* attribute and no value child elements
C18_NullCarriesNoValue ==
    (ConditionCompiled /\ condition_expression.object.operator \in NullOperators) =>
        /\ "value" \notin AttributeNames(condition_element.element)
        /\ condition_element.element.children = <<>>

\* C19: for IN/NOT_IN with value list L the compiled condition element has
\* exactly Len(L) value children whose texts are the items of L in order, and
\* the attributes attribute and operator only
C19_InRendersValueChildren ==
    (/\ ConditionCompiled
     /\ condition_expression.object.operator \in ListOperators
     /\ IsList(condition_expression.supplied.value)) =>
        LET L == condition_expression.supplied.value.items
            element == condition_element.element
        IN  /\ Len(element.children) = Len(L)
            /\ \A i \in DOMAIN L :
                  /\ element.children[i].tag = "value"
                  /\ element.children[i].text = PyStr(L[i])
            /\ AttributeNames(element) = {"attribute", "operator"}

\* C20: for an operator that is neither IN/NOT_IN nor NULL/NOT_NULL and a
\* single scalar v, supplied as v or as [v], the compiled condition element
\* has a value attribute equal to the text of v and no value children
C20_SingleValueAttribute ==
    (/\ condition_element # NoObject
     /\ condition_expression.supplied.operator \notin ListOperators \cup NullOperators
     /\ \/ ~IsList(condition_expression.supplied.value)
           /\ condition_expression.supplied.value # JNull
        \/ IsList(condition_expression.supplied.value)
           /\ Len(condition_expression.supplied.value.items) = 1) =>
        LET supplied == condition_expression.supplied.value
            v == IF IsList(supplied) THEN supplied.items[1] ELSE supplied
        IN  /\ condition_element.status = "ok"
            /\ "value" \in AttributeNames(condition_element.element)
            /\ AttributeValue(condition_element.element, "value") = PyStr(v)
            /\ condition_element.element.children = <<>>

\* C21: compiling a condition whose operator is neither IN/NOT_IN nor
\* NULL/NOT_NULL and whose supplied value list has no element or more than
\* one element fails; no value is rendered for it
C21_WrongLengthListFails ==
    (/\ condition_element # NoObject
     /\ condition_expression.supplied.operator \notin ListOperators \cup NullOperators
     /\ IsList(condition_expression.supplied.value)
     /\ Len(condition_expression.supplied.value.items) # 1) =>
        condition_element.status = "raise"

(***************************************************************************)
(* Properties of ColumnSet and of the columns of a link-entity.            *)
(***************************************************************************)
\* the children that the query's own column set gets for these columns
EntityColumnChildren(columns) ==
    _query_expression_to_fetchxml(
        [entity_name |-> "account", column_set |-> ColumnNames(columns),
         criteria |-> NoObject, orders |-> <<>>, link_entities |-> <<>>,
         top_count |-> <<>>, distinct |-> FALSE]).children[1].children

\* C22: the link-entity element of a LinkEntity with ColumnSet(True) has
\* exactly one all-attributes child and no attribute child; with an explicit
\* column list it has one attribute child per column in list order; both as
\* for the query's own column set
C22_LinkColumnsRendered ==
    (link_element # NoObject /\ link_element.status = "ok") =>
        LET supplied == column_set_built.supplied
            children == link_element.element.children
        IN  /\ IF IsList(supplied)
               THEN children = [i \in DOMAIN supplied.items |->
                                   Element("attribute",
                                           <<<<"name", supplied.items[i].v>>>>,
                                           "", <<>>)]
               ELSE children = <<Element("all-attributes", <<>>, "", <<>>)>>
            /\ children = EntityColumnChildren(column_set_built.object)

\* C23: ColumnSet construction succeeds exactly for True and for a non-empty
\* list whose elements are all strings; None, False, an empty list and a
\* list with a non-string element fail with ValueError
C23_ColumnSetValidated ==
    column_set_built # NoObject =>
        LET supplied == column_set_built.supplied
        IN  column_set_built.status = "ok" <=>
               \/ supplied = JBool(TRUE)
               \/ /\ IsList(supplied)
                  /\ supplied.items # <<>>
                  /\ \A i \in DOMAIN supplied.items : supplied.items[i].t = "str"

(***************************************************************************)
(* Properties of EntityReference.                                          *)
(***************************************************************************)
\* C24: after any construction and entity_id assignments the entity_id is
\* None or a UUID; constructing with or assigning a string that is no UUID
\* (the empty string included) or a value that is neither string nor UUID
\* raises ValueError, and a failed assignment leaves entity_id as it was
C24_EntityIdNoneOrUuid ==
    entity_reference # NoObject =>
        /\ entity_reference.object # NoObject =>
              \/ entity_reference.object.entity_id = JNull
              \/ entity_reference.object.entity_id.t = "uuid"
        /\ (/\ entity_reference.supplied # JNull
            /\ entity_reference.supplied.t # "uuid"
            /\ ~IsUuidText(entity_reference.supplied)) =>
              entity_reference.status = "raise"
        /\ (entity_reference.status = "raise" /\ entity_reference.object # NoObject) =>
              entity_reference.object.entity_id = entity_reference.previous

(***************************************************************************)
(* Properties of EntityCollection.                                         *)
(***************************************************************************)
\* an element an EntityCollection of this name may hold
ValidElement(entity_logical_name, item) ==
    /\ item.kind = "Entity"
    /\ item.entity_id # JNull
    /\ item.entity_logical_name = entity_logical_name

\* C25: after any sequence of EntityCollection operations every element is
\* an Entity with an id and the collection's entity_logical_name; an
\* operation that would add an element violating this raises ValueError and
\* leaves the collection unchanged
C25_CollectionHoldsValidEntities ==
    CollectionBuilt =>
        /\ \A i \in DOMAIN entity_collection.entities :
              ValidElement(entity_collection.entity_logical_name,
                           entity_collection.entities[i])
        /\ (\E i \in DOMAIN entity_collection.offered :
               ~ValidElement(entity_collection.entity_logical_name,
                             entity_collection.offered[i])) =>
              entity_collection.status = "raise"
        /\ entity_collection.status = "raise" =>
              entity_collection.entities = entity_collection.previous

(***************************************************************************)
(* Properties of EntityReferenceCollection.                                *)
(***************************************************************************)
\* a reference an EntityReferenceCollection of this name may hold
ValidReference(entity_logical_name, reference) ==
    /\ reference.entity_logical_name = entity_logical_name
    /\ reference.entity_id # JNull

\* C26: after any sequence of construction, add and remove the collection
\* is non-empty and every reference has the collection's
\* entity_logical_name and an entity_id; an add that would violate this
\* raises ValueError and leaves the collection unchanged
C26_ReferencesNonEmptyAndValid ==
    ReferencesBuilt =>
        /\ reference_collection.entities # <<>>
        /\ \A i \in DOMAIN reference_collection.entities :
              ValidReference(reference_collection.entity_logical_name,
                             reference_collection.entities[i])
        /\ (\E i \in DOMAIN reference_collection.offered :
               ~ValidReference(reference_collection.entity_logical_name,
                               reference_collection.offered[i])) =>
              reference_collection.status = "raise"
        /\ reference_collection.status = "raise" =>
              reference_collection.entities = reference_collection.previous

(***************************************************************************)
(* Properties of get_associate_request.                                    *)
(***************************************************************************)
\* the body of the request refers to this related record
Referenced(request, related_record) ==
    \E i \in DOMAIN request.json :
        Contains(request.json[i][2], PyStr(related_record.entity_id))

\* C27: for a many-to-many or many-to-one relationship with N >= 1 related
\* records the request refers to every one of the N related records; for a
\* one-to-many relationship with more than one related record
\* get_associate_request fails
C27_EveryRelatedRecordReferenced ==
    (associate_request # NoObject
     /\ associate_request.given.relationship_type # NoObject) =>
        LET given == associate_request.given
        IN  /\ (/\ associate_request.status = "ok"
                /\ given.relationship_type.kind \in {"ManyToMany", "ManyToOne"}) =>
                  \A i \in DOMAIN given.related_records :
                      Referenced(associate_request, given.related_records[i])
            /\ (/\ given.relationship_type.kind = "OneToMany"
                /\ Len(given.related_records) > 1) =>
                  associate_request.status = "raise"

(***************************************************************************)
(* Properties of _parse_relate and refresh_metadata.                       *)
(***************************************************************************)
\* C28: with no relationship name supplied, whenever
\* parse_relationship_name infers a relationship R, validate_relationship_name
\* called with R's schema name returns R itself, for every metadata and every
\* order of its entity list
C28_ValidationKeepsInferred ==
    inferred.status = "ok" => validated = Found(inferred.rel)

\* C29: once the client's snapshot has contains_relationships = true, every
\* snapshot installed later by refresh_metadata or _parse_relate has it too
C29_RelationshipSnapshotKept ==
    [][metadata.contains_relationships => metadata'.contains_relationships]_vars

(***************************************************************************)
(* Properties of the headers of a DataverseRequest.                        *)
(***************************************************************************)
FlagHeaders ==
    {"MSCRM.SuppressDuplicateDetection", "MSCRM.BypassCustomPluginExecution",
     "MSCRM.SuppressCallBackRegistrationExpanderJob"}

\* C30: a request built with its three flags false carries none of the three
\* MSCRM flag headers, whatever requests were built before it
C30_HeadersDependOnOwnFlags ==
    (/\ request_headers # NoObject
     /\ request_headers.status = "ok"
     /\ request_headers.supplied = <<FALSE, FALSE, FALSE>>) =>
        DOMAIN request_headers.headers \cap FlagHeaders = {}

====
